---- MODULE Spec2Model ----
(***************************************************************************)
(* git-subrepo (lib/git-subrepo.py): the history-grafting and              *)
(* synchronisation engine.  Host repositories embed one upstream           *)
(* repository under a subdirectory; the descriptor (.gitrepo) lives in the *)
(* subdirectory tree of every host commit.  Commits are numbered in        *)
(* creation order, so a parent always has a smaller number than its child. *)
(* Every command is one atomic action: the tool is single-threaded and     *)
(* runs one command per process.                                           *)
(***************************************************************************)
EXTENDS Integers, Sequences, FiniteSets, TLC

\* ----- bounds -----------------------------------------------------------
MaxMerges == 1             \* merges of a side branch the user of a host makes
MaxCommits == 9            \* size of the object store, one host repository
MaxCommitsTwo == 16        \* size of the object store, two host repositories
MaxEdits == 2              \* commits the user makes in one host repository
MaxUpstream == 2            \* commits third parties make on the upstream branch
MaxCommitsRepo == 8        \* size of the object store, one repository with two subrepos

Hosts == {"h1", "h2"}      \* independent host repositories (Spec runs the first alone)
Files == {"a", "b"}        \* files of the upstream project
OwnerFiles == {"a"}        \* the file third parties change upstream
RewriteFiles == {"b"}      \* the file a rewritten upstream head changes
Methods == {"merge", "rebase"}
Remotes == {"R", "R2"}     \* two URLs of the upstream repository
Branches == {"master", "refs/heads/master"}    \* two names of the upstream branch

\* ----- objects ----------------------------------------------------------
NoFiles == [f \in Files |-> "none"]        \* the subdirectory does not exist
BaseFiles == [f \in Files |-> "base"]      \* content of the first upstream commit

\* The descriptor file <subdir>/.gitrepo (fields read by read_gitrepo_file).
NoGitrepo == [present |-> FALSE, remote |-> "none", branch |-> "master",
              commit |-> 0, parent |-> 0, method |-> "merge"]

\* The options --remote, --branch ("": not given) and --update of a run.
NoOpts == [remote |-> "", branch |-> "", update |-> FALSE]

\* What a run knows after command_setup: the command, self.subrepo_remote
\* and self.subrepo_branch (the option, else the descriptor's value),
\* self.override_remote and self.override_branch, self.update_wanted.
RunOf(cmd, d, o) ==
    [cmd |-> cmd,
     remote |-> IF o.remote # "" THEN o.remote ELSE d.remote,
     branch |-> IF o.branch # "" THEN o.branch ELSE d.branch,
     oremote |-> o.remote, obranch |-> o.branch, update |-> o.update]

\* A tree: the files of the upstream project, the descriptor, and (for host
\* commits) a version number standing for the host's own files outside the
\* subdirectory.  For a host commit files/gitrepo are the subdirectory.
MkTree(files, gitrepo, other) == [files |-> files, gitrepo |-> gitrepo, other |-> other]

\* A commit: parents, tree and who made it ("user": the host's user, "owner":
\* a third party upstream, "tool": git-subrepo, "resolve": the user in the
\* worktree).
MkCommit(parents, tree, by) == [parents |-> parents, tree |-> tree, by |-> by]

Range(s) == {s[i] : i \in DOMAIN s}

\* Ancestors of c (c included) in the object store st.
RECURSIVE Anc(_, _)
Anc(st, c) == {c} \cup UNION {Anc(st, p) : p \in Range(st[c].parents)}

\* git_rev_exists: 0 stands for the empty / missing revision.
git_rev_exists(st, rev) == rev # 0 /\ rev \in DOMAIN st

\* git_commit_in_rev_list(commit, list_head): an empty commit is never found.
git_commit_in_rev_list(st, commit, list_head) ==
    commit # 0 /\ commit \in Anc(st, list_head)

\* Ascending list of a finite set of commit numbers.
RECURSIVE SortAsc(_)
SortAsc(S) ==
    IF S = {} THEN << >>
    ELSE LET m == CHOOSE x \in S : \A y \in S : x <= y
         IN << m >> \o SortAsc(S \ {m})

\* ----- three-way merge of file contents ---------------------------------
ConflictFiles(base, ours, theirs) ==
    {f \in Files : ours[f] # theirs[f] /\ ours[f] # base[f] /\ theirs[f] # base[f]}

Merge3(base, ours, theirs) ==
    [f \in Files |-> IF ours[f] = base[f] THEN theirs[f] ELSE ours[f]]

\* Best common ancestors (git merge-base).
MergeBases(st, x, y) ==
    LET ca == Anc(st, x) \cap Anc(st, y)
    IN {c \in ca : \A d \in ca \ {c} : c \notin Anc(st, d)}

MergeBase(st, x, y) ==
    LET mb == MergeBases(st, x, y)
    IN IF mb = {} THEN 0 ELSE CHOOSE c \in mb : \A d \in mb : d <= c

BaseFilesOf(st, x, y) ==
    IF MergeBase(st, x, y) = 0 THEN NoFiles ELSE st[MergeBase(st, x, y)].tree.files

\* ----- state ------------------------------------------------------------
VARIABLES
    commits,   \* the object store: sequence of commits, a commit's number is its index
    up,        \* head of the tracked upstream branch
    hosts,     \* per host: HEAD, the four refs/subrepo/<subref>/* refs, working branch, worktree
    last       \* the git-subrepo command that made the last step and its outcome

vars == << commits, up, hosts, last >>

\* The worktree .git/tmp/subrepo/<subref>.
\*   state  "none" | "clean" | "merging" | "rebasing"
\*   theirs MERGE_HEAD of a stopped merge / the upstream a stopped rebase replays onto
\*   cur    detached HEAD of a stopped rebase
\*   todo   commits a stopped rebase has still to replay (first one is the stopped pick)
\*   by     the command that created the worktree
NoWorktree == [state |-> "none", theirs |-> 0, cur |-> 0, todo |-> << >>, by |-> "none"]
\* Variant of CleanWorktree: the branch is made without a worktree.
WorktreeNotAdded(by) == [state |-> "none", theirs |-> 0, cur |-> 0, todo |-> << >>, by |-> "none"]

CleanWorktree(by) == [state |-> "clean", theirs |-> 0, cur |-> 0, todo |-> << >>, by |-> by]

\* `last` when no git-subrepo command has run since something other than a
\* local commit happened.  edited: the user has made local commits since the
\* command ran.  exit: the exit status of the process (empty: no process
\* has ended).  all: the process was started with --all.  pend: the
\* subdirectories a running --all process has still to work on.
Idle == [cmd |-> "none", host |-> "h1", out |-> "none", force |-> FALSE, arg |-> FALSE,
         edited |-> FALSE, o |-> NoOpts, exit |-> << >>, all |-> FALSE, pend |-> << >>]

\* The subdirectory a host record stands for.  A string is the sequence of
\* its symbols; a symbol is one character or a run of ordinary characters
\* that the program never takes apart ("bar", "sub", "lock").
Subdir == << "bar" >>

\* dirty: the working tree or the index of the repository has uncommitted
\* changes to tracked files.  subref: the subdirectory encoded for ref
\* names (bar is legal as it is).
FreshHost(c) ==
    [head |-> c, fetch |-> 0, branch |-> 0, commit |-> 0, push |-> 0,
     wbranch |-> 0, wt |-> NoWorktree, dirty |-> FALSE, subdir |-> Subdir,
     subref |-> Subdir, missing |-> {}, pushing |-> << >>]

Init ==
    /\ commits = << MkCommit(<< >>, MkTree(BaseFiles, NoGitrepo, 0), "init"),
                    MkCommit(<< >>, MkTree(NoFiles, NoGitrepo, 1), "init") >>
    /\ up = 1
    /\ hosts = [h \in {"h1"} |-> FreshHost(2)]
    /\ last = Idle

\* Capacity of the object store.
Cap == IF DOMAIN hosts = Hosts THEN MaxCommitsTwo ELSE MaxCommits

Room(n) == Len(commits) + n <= Cap

\* Commits made so far by the user of a host / by third parties upstream.
Made(by) == Cardinality({c \in DOMAIN commits : commits[c].by = by})

\* Descriptor of the host's checked-out commit (the working copy is clean).
Desc(st, c) == st[c].tree.gitrepo


\* Result of a step of a command: error tag ("none" when it went through),
\* the object store and the host afterwards.
Res(err, st, H) == [err |-> err, st |-> st, host |-> H]

\* ----- git helpers ------------------------------------------------------
\* assert_working_copy_is_clean, run inside the worktree: it checks nothing
\* unless the running command is one of the six it lists.
CleanChecked == {"clone", "init", "pull", "push", "branch", "commit"}

\* Variant of assert_working_copy_is_clean: nothing is checked.
assert_working_copy_is_clean_never(H, cmd) == "none"

\* assert_working_copy_is_clean, run by assert_repo_is_ready in the host
\* working tree when the process starts.
assert_working_copy_is_clean(H, cmd) ==
    IF cmd \in CleanChecked /\ H.dirty THEN "WorkingTreeDirty" ELSE "none"

\* git_remove_worktree: self.worktree (wtvar) is set only by the commands
\* that computed the worktree path in this process.
git_remove_worktree(H, wtvar, cmd) ==
    IF ~wtvar THEN Res("none", << >>, H)
    ELSE IF H.wt.state = "none" THEN Res("none", << >>, H)
    ELSE IF cmd \in CleanChecked /\ H.wt.state # "clean" THEN Res("WorktreeDirty", << >>, H)
    ELSE Res("none", << >>, [H EXCEPT !.wt = NoWorktree])

\* Variant of git_delete_branch: nothing is removed.
git_delete_branch_noop(H, wtvar, cmd) == Res("none", << >>, H)

\* git_delete_branch: remove the worktree, then `git branch -D` with
\* FAIL=False (git refuses to delete a branch checked out in a worktree).
git_delete_branch(H, wtvar, cmd) ==
    LET r == git_remove_worktree(H, wtvar, cmd)
    IN IF r.err # "none" THEN r
       ELSE IF r.host.wt.state # "none" THEN r
       ELSE Res("none", << >>, [r.host EXCEPT !.wbranch = 0])

\* ----- HistoryGrafter: subrepo_branch_create ----------------------------
\* `git config --blob <commit>:<subdir>/.gitrepo subrepo.commit`
gitrepo_commit(st, c) ==
    IF st[c].tree.gitrepo.present THEN st[c].tree.gitrepo.commit ELSE 0

\* --topo-order, reversed: a commit comes after all its ancestors in S, the
\* line of its first parent before the line of its second parent.
RECURSIVE TopoVisit(_, _, _, _)
TopoVisit(st, S, c, done) ==
    IF c \notin S \/ c \in Range(done) THEN done
    ELSE LET ps == st[c].parents
         IN IF Len(ps) = 0 THEN Append(done, c)
            ELSE IF Len(ps) = 1 THEN Append(TopoVisit(st, S, ps[1], done), c)
            ELSE Append(TopoVisit(st, S, ps[2], TopoVisit(st, S, ps[1], done)), c)

\* `git rev-list --reverse --ancestry-path --topo-order <parent>..HEAD`
CommitList(st, parent, head) ==
    TopoVisit(st, {c \in Anc(st, head) : c # parent /\ parent \in Anc(st, c)}, head, << >>)

WalkInit ==
    [synth |-> << >>, ancestor |-> 0, first |-> 0, lastg |-> 0, err |-> "none",
     missing |-> {}]

\* Variant of SecondParent: only the first synthesized commit gets the
\* recorded upstream commit as a parent.
SecondParentFirstOnly(isFirst, changed, g) == IF isFirst THEN g ELSE 0

\* Variant of SecondParent: every synthesized commit gets the recorded
\* upstream commit as a parent.
SecondParentAlways(isFirst, changed, g) == g

\* The second parent of a synthesized commit (0: none).
SecondParent(isFirst, changed, g) == IF isFirst \/ changed THEN g ELSE 0

\* Variant of RebaseCheckFails: a walk that never compares against the
\* fetched ref.
RebaseCheckSkipped(st, g, fetchRef) == FALSE

\* The rebase check of the walk.
RebaseCheckFails(st, g, fetchRef) ==
    git_rev_exists(st, fetchRef) /\ ~git_commit_in_rev_list(st, g, fetchRef)

\* Variant of NotInSelectedPath: every commit with a descriptor is taken.
NotInSelectedPathNever(st, c, ancestor) == FALSE

\* Variant of NotInSelectedPath: only a commit whose single parent is the
\* commit selected last counts as its direct child.
NotInSelectedPathMerges(st, c, ancestor) ==
    ancestor # 0 /\ st[c].parents # << ancestor >>

\* "Check if direct child": `git show -s --pretty=format:%P <commit>` does
\* not name the commit selected last.
NotInSelectedPath(st, c, ancestor) ==
    ancestor # 0 /\ ancestor \notin Range(st[c].parents)

\* `git commit-tree ... -p <second parent> <tree>` (has_content branch) fails
\* when the parent is not in the object store of the host.  Its status is
\* not looked at: prev_commit becomes the empty output, so the commits
\* synthesized so far are left behind and the next one has no first parent.
CommitTreeFails(second, missing) == second # 0 /\ second \in missing

\* One iteration of the loop over commit_list.
WalkStep(st, c, fetchRef, method, acc) ==
    LET g == gitrepo_commit(st, c)
    IN IF g = 0 THEN acc
       ELSE IF NotInSelectedPath(st, c, acc.ancestor) THEN acc
       ELSE IF RebaseCheckFails(st, g, fetchRef)
            THEN [acc EXCEPT !.ancestor = c, !.err = "HistoryRewritten"]
       ELSE LET isFirst == acc.first = 0
                changed == method # "rebase" /\ g # acc.lastg
            IN [synth |-> IF CommitTreeFails(SecondParent(isFirst, changed, g), acc.missing)
                          THEN << >>
                          ELSE Append(acc.synth,
                                      [tree |-> [st[c].tree EXCEPT !.other = 0],
                                       second |-> SecondParent(isFirst, changed, g),
                                       src |-> c]),
                ancestor |-> c,
                first |-> IF isFirst THEN g ELSE acc.first,
                lastg |-> IF changed THEN g ELSE acc.lastg,
                err |-> "none",
                missing |-> acc.missing]

RECURSIVE Walk(_, _, _, _, _, _)
Walk(st, list, i, fetchRef, method, acc) ==
    IF i > Len(list) \/ acc.err # "none" THEN acc
    ELSE Walk(st, list, i + 1, fetchRef, method,
              WalkStep(st, list[i], fetchRef, method, acc))

\* No-parent mode: `git filter-branch --subdirectory-filter`: the commits of
\* HEAD's history that change the subdirectory, each reduced to its subtree.
RECURSIVE SubdirHistory(_, _, _, _)
SubdirHistory(st, list, i, prevtree) ==
    IF i > Len(list) THEN << >>
    ELSE LET t == [st[list[i]].tree EXCEPT !.other = 0]
         IN IF (t.files = NoFiles /\ ~t.gitrepo.present) \/ t = prevtree
            THEN SubdirHistory(st, list, i + 1, prevtree)
            ELSE << [tree |-> t, second |-> 0, src |-> list[i]] >>
                 \o SubdirHistory(st, list, i + 1, t)

\* Variant of TreeFilter: a tree filter that removes nothing.
TreeFilterKeep(tree) == tree

\* The tree filter 'rm -f .gitrepo'.
TreeFilter(tree) == [tree EXCEPT !.gitrepo = NoGitrepo]

\* `git filter-branch -f --prune-empty --tree-filter 'rm -f .gitrepo' --
\* <first_gitrepo_commit>..<branch> --first-parent`, applied to the chain of
\* synthesized commits.  prev is what the previous commit of the chain was
\* rewritten to (0: nothing yet).  A commit left with one parent and that
\* parent's tree is pruned, as is a parentless commit with the empty tree.
RECURSIVE StripGitrepo(_, _, _, _)
StripGitrepo(st, synth, i, prev) ==
    IF i > Len(synth) THEN [st |-> st, tip |-> prev]
    ELSE LET s == synth[i]
             tree == TreeFilter(s.tree)
             ps == (IF prev = 0 THEN << >> ELSE << prev >>)
                   \o (IF s.second = 0 \/ s.second = prev THEN << >> ELSE << s.second >>)
         IN IF Len(ps) = 1 /\ st[ps[1]].tree = tree
            THEN StripGitrepo(st, synth, i + 1, ps[1])
            ELSE IF Len(ps) = 0 /\ tree.files = NoFiles
            THEN StripGitrepo(st, synth, i + 1, prev)
            ELSE StripGitrepo(Append(st, MkCommit(ps, tree, "tool")), synth, i + 1, Len(st) + 1)

\* The second filter-branch fails, unnoticed (FAIL is off), when
\* <first_gitrepo_commit> is not in the object store of the host: the
\* synthesized commits stay as commit-tree made them, descriptor included.
RECURSIVE KeepSynth(_, _, _, _)
KeepSynth(st, synth, i, prev) ==
    IF i > Len(synth) THEN [st |-> st, tip |-> prev]
    ELSE LET s == synth[i]
             ps == (IF prev = 0 THEN << >> ELSE << prev >>)
                   \o (IF s.second = 0 THEN << >> ELSE << s.second >>)
         IN KeepSynth(Append(st, MkCommit(ps, s.tree, "tool")), synth, i + 1, Len(st) + 1)

\* Variant of git_branch_exists: the working branch is never found.
git_branch_exists_never(H) == FALSE

\* git_branch_exists('subrepo/<subref>')
git_branch_exists(H) == H.wbranch # 0

\* Variant of ParentIsAncestor: a graft that trusts the recorded parent.
ParentTrusted(st, parent, head) == TRUE

\* merge-base --is-ancestor <parent> HEAD
ParentIsAncestor(st, parent, head) ==
    parent \in DOMAIN st /\ parent \in Anc(st, head)

\* The end of subrepo_branch_create: `git branch`, `git worktree add` and
\* the branch ref, for the filtered commits r.
GraftFiltered(st, H, by, r) ==
    IF r.tip = 0 THEN Res("CommandFailed", st, H)
    ELSE Res("none", r.st,
             [H EXCEPT !.wbranch = r.tip, !.wt = CleanWorktree(by), !.branch = r.tip])

\* subrepo_branch_create after the walk w: the commits are made and the
\* descriptor filtered out of them.
GraftWalked(st, H, by, w) ==
    IF w.err # "none" THEN Res(w.err, st, H)
    ELSE GraftFiltered(st, H, by,
                       IF w.first \in H.missing THEN KeepSynth(st, w.synth, 1, 0)
                       ELSE StripGitrepo(st, w.synth, 1, 0))

\* subrepo_branch_create(branch): H is the host, parent/method are
\* self.subrepo_parent and self.join_method, by is the running command.
subrepo_branch_create(st, H, parent, method, by) ==
    IF git_branch_exists(H) THEN Res("none", st, H)
    ELSE IF parent # 0 /\ ~ParentIsAncestor(st, parent, H.head)
    THEN Res("AncestorNotFound", st, H)
    ELSE GraftWalked(st, H, by,
                     IF parent # 0
                     THEN Walk(st, CommitList(st, parent, H.head), 1, H.fetch, method,
                               [WalkInit EXCEPT !.missing = H.missing])
                     ELSE [WalkInit EXCEPT !.synth =
                              SubdirHistory(st, SortAsc(Anc(st, H.head)), 1,
                                            MkTree(NoFiles, NoGitrepo, 0))])

\* ----- SyncReconciler ---------------------------------------------------
\* Variant of git_merge: a true merge keeps the content of the working
\* branch (merge strategy "ours").
git_merge_ours(st, H) ==
    LET ours == H.wbranch
        theirs == H.fetch
    IN IF theirs \in Anc(st, ours) THEN Res("none", st, H)
       ELSE IF ours \in Anc(st, theirs) THEN Res("none", st, [H EXCEPT !.wbranch = theirs])
       ELSE Res("none",
                Append(st, MkCommit(<< ours, theirs >>, st[ours].tree, "tool")),
                [H EXCEPT !.wbranch = Len(st) + 1])

\* `git merge <refs_subrepo_fetch>` in the worktree.
git_merge(st, H) ==
    LET ours == H.wbranch
        theirs == H.fetch
        base == BaseFilesOf(st, ours, theirs)
        o == st[ours].tree.files
        t == st[theirs].tree.files
    IN IF theirs \in Anc(st, ours) THEN Res("none", st, H)
       ELSE IF ours \in Anc(st, theirs) THEN Res("none", st, [H EXCEPT !.wbranch = theirs])
       ELSE IF MergeBase(st, ours, theirs) = 0 THEN Res("Conflicts", st, H)
       ELSE IF ConflictFiles(base, o, t) # {}
       THEN Res("Conflicts", st,
                [H EXCEPT !.wt = [H.wt EXCEPT !.state = "merging", !.theirs = theirs]])
       ELSE Res("none",
                Append(st, MkCommit(<< ours, theirs >>,
                                    MkTree(Merge3(base, o, t), NoGitrepo, 0), "tool")),
                [H EXCEPT !.wbranch = Len(st) + 1])

\* Replaying the commits of todo (from index i) onto cur, as `git rebase`
\* does: each is a three-way merge against its own parent; a pick that
\* changes nothing is dropped; a conflicting pick stops the rebase with the
\* branch ref still at its old tip.
RECURSIVE Replay(_, _, _, _, _)
Replay(st, H, cur, todo, i) ==
    IF i > Len(todo)
    THEN Res("none", st, [H EXCEPT !.wbranch = cur, !.wt = CleanWorktree(H.wt.by)])
    ELSE LET c == todo[i]
             base == IF st[c].parents = << >> THEN NoFiles
                     ELSE st[st[c].parents[1]].tree.files
             o == st[cur].tree.files
             t == st[c].tree.files
         IN IF ConflictFiles(base, o, t) # {}
            THEN Res("Conflicts", st,
                     [H EXCEPT !.wt = [state |-> "rebasing", theirs |-> H.fetch, cur |-> cur,
                                       todo |-> SubSeq(todo, i, Len(todo)), by |-> H.wt.by]])
            ELSE IF Merge3(base, o, t) = o THEN Replay(st, H, cur, todo, i + 1)
            ELSE Replay(Append(st, MkCommit(<< cur >>, MkTree(Merge3(base, o, t), NoGitrepo, 0),
                                           "tool")),
                        H, Len(st) + 1, todo, i + 1)

\* `git rebase <refs_subrepo_fetch> <branch>` in the worktree.
git_rebase(st, H) ==
    LET onto == H.fetch
        tip == H.wbranch
        range == Anc(st, tip) \ Anc(st, onto)
        todo == SortAsc({c \in range : Len(st[c].parents) <= 1})
    IN IF tip \in Anc(st, onto) THEN Res("none", st, [H EXCEPT !.wbranch = onto])
       ELSE IF onto \in Anc(st, tip) /\ \A c \in range : Len(st[c].parents) <= 1
       THEN Res("none", st, H)
       ELSE Replay(st, H, onto, todo, 1)

\* Variant of ParentToWrite: the parent field is rewritten by every save.
ParentToWriteAlways(old, uhc, refsha, ohc) == ohc

\* Variant of ParentToWrite: the parent field is never rewritten.
ParentToWriteKept(old, uhc, refsha, ohc) == old.parent

\* Variant of ParentToWrite: the tip of the merged ref is written instead
\* of the host HEAD.
ParentToWriteRef(old, uhc, refsha, ohc) ==
    IF uhc # 0 /\ refsha # 0 /\ uhc = refsha THEN refsha ELSE old.parent

\* ----- SubrepoMetadata: update_gitrepo_file -----------------------------
\* old: the descriptor found in the file; uhc: self.upstream_head_commit;
\* refsha: rev-parse of self.subrepo_commit_ref; ohc: self.original_head_commit;
\* run: the command and its options.
ParentToWrite(old, uhc, refsha, ohc) ==
    IF uhc # 0 /\ refsha # 0 /\ uhc = refsha THEN ohc ELSE old.parent

\* Variant of ShouldUpdate: an override is written whatever the command
\* and without --update.
ShouldUpdateAnyOverride(newfile, run, override) == newfile \/ override # ""

\* Variant of ShouldUpdate: a new file is treated like an existing one.
ShouldUpdateOnOverride(newfile, run, override) ==
    \/ run.update /\ override # ""
    \/ run.cmd \in {"push", "clone"} /\ override # ""

ShouldUpdate(newfile, run, override) ==
    \/ newfile
    \/ run.update /\ override # ""
    \/ run.cmd \in {"push", "clone"} /\ override # ""

\* Variant of CommitToWrite: the tip of the merged ref is recorded instead
\* of the upstream head.
CommitToWriteRef(old, uhc, refsha) == IF refsha # 0 THEN refsha ELSE old.commit

\* The commit field: the upstream head, when the command has one.
CommitToWrite(old, uhc, refsha) == IF uhc # 0 THEN uhc ELSE old.commit

update_gitrepo_file(old, uhc, refsha, ohc, method, run) ==
    [present |-> TRUE,
     remote |-> IF ShouldUpdate(~old.present, run, run.oremote) THEN run.remote
                ELSE old.remote,
     branch |-> IF ShouldUpdate(~old.present, run, run.obranch) THEN run.branch
                ELSE old.branch,
     commit |-> CommitToWrite(old, uhc, refsha),
     parent |-> ParentToWrite(old, uhc, refsha, ohc),
     method |-> method]

\* Variant of ContainsUpstreamHead: the commit ref is taken to contain the
\* upstream head.
ContainsUpstreamHeadAssumed(st, uhc, ref) == TRUE

\* ----- CommitPublisher: do_subrepo_commit -------------------------------
ContainsUpstreamHead(st, uhc, ref) == git_commit_in_rev_list(st, uhc, ref)

\* Variant of SyncParents: the commit replaces HEAD (`git commit --amend`).
SyncParentsAmend(st, ohc) == st[ohc].parents

\* "Commit to the original head branch": `git commit` makes a child of HEAD.
SyncParents(st, ohc) == << ohc >>

\* ref: self.subrepo_commit_ref; uhc: self.upstream_head_commit;
\* wtvar: whether self.worktree is set in this process; run: the command
\* and its options.
do_subrepo_commit(st, H, ref, uhc, force, method, wtvar, run) ==
    LET ohc == H.head
        cmd == run.cmd
        desc == update_gitrepo_file(Desc(st, ohc), uhc, ref, ohc, method, run)
        tree == MkTree(st[ref].tree.files, desc, st[ohc].tree.other)
        H1 == [H EXCEPT !.head = Len(st) + 1]
        st1 == Append(st, MkCommit(SyncParents(st, ohc), tree, "tool"))
        rw == git_remove_worktree(H1, wtvar, cmd)
    IN IF ~git_rev_exists(st, ref) THEN Res("NoCommitRef", st, H)
       ELSE IF ~force /\ ~ContainsUpstreamHead(st, uhc, ref) THEN Res("NoUpstreamHead", st, H)
       ELSE IF tree = st[ohc].tree THEN Res("CommandFailed", st, H)
       ELSE IF rw.err # "none" THEN Res(rw.err, st1, H1)
       ELSE Res("none", st1, [rw.host EXCEPT !.commit = ref])

\* ----- commands ---------------------------------------------------------
\* subrepo_fetch: FETCH_HEAD is the upstream branch head.
subrepo_fetch(H) ==
    [H EXCEPT !.fetch = up,
              !.missing = IF @ = {} \/ up = 0 THEN @ ELSE @ \ Anc(commits, up)]

\* Variant of WorktreeCheck: an existing worktree never stops a command.
WorktreeCheckAbsentOnly(H, cmd, force) ==
    IF force THEN "none"
    ELSE IF cmd = "commit" /\ H.wt.state = "none" THEN "NoWorktree"
    ELSE "none"

\* command_setup: the check for an existing worktree.
WorktreeCheck(H, cmd, force) ==
    IF force THEN "none"
    ELSE IF cmd = "commit" /\ H.wt.state = "none" THEN "NoWorktree"
    ELSE IF cmd \notin {"branch", "clean", "commit", "push"} /\ H.wt.state # "none"
    THEN "WorktreeExists"
    ELSE "none"

\* get_upstream_head_branch: the branch the upstream HEAD names.
UpstreamHeadBranch == "master"

\* Variant of CloneIntoEmpty: the error comes after the fetch.
CloneIntoEmptyFetched(st, H) == Res("EmptyRepository", st, subrepo_fetch(H))

\* subrepo_clone, "Check if we can clone": `git rev-parse HEAD` fails in a
\* repository without commits (head 0) and the clone is refused.
CloneIntoEmpty(st, H) == Res("EmptyRepository", st, H)

\* command_clone / subrepo_clone: remote is the argument, method the
\* --method option, o.branch the --branch option.  --force is a reclone
\* only when the descriptor exists; a reclone takes the method from the
\* descriptor and, without --branch, the branch from the upstream HEAD.
command_clone(st, H, method, force, remote, o) ==
    LET chk == WorktreeCheck(H, "clone", force)
        t == st[H.head].tree
        d == t.gitrepo
        reclone == force /\ d.present
        F == subrepo_fetch(H)
        obranch == IF o.branch # "" THEN o.branch
                   ELSE IF reclone THEN UpstreamHeadBranch ELSE ""
        run == [cmd |-> "clone", remote |-> remote,
                branch |-> IF o.branch # "" THEN o.branch ELSE UpstreamHeadBranch,
                oremote |-> "", obranch |-> obranch, update |-> FALSE]
    IN IF chk # "none" THEN Res(chk, st, H)
       ELSE IF ~git_rev_exists(st, H.head) THEN CloneIntoEmpty(st, H)
       ELSE IF up = 0 THEN Res("CommandFailed", st, H)
       ELSE IF reclone
       THEN IF up = d.commit THEN Res("UpToDate", st, F)
            ELSE do_subrepo_commit(st, F, up, up, TRUE, d.method, FALSE, run)
       ELSE IF t.files # NoFiles \/ t.gitrepo.present THEN Res("SubdirNotEmpty", st, H)
       ELSE do_subrepo_commit(st, F, up, up, FALSE, method, FALSE, run)

\* command_init_subrepo / subrepo_init: o.remote, o.branch are the --remote
\* and --branch options, method the --method option.
command_init_subrepo(st, H, method, o) ==
    LET chk == WorktreeCheck(H, "init", FALSE)
        ohc == H.head
        t == st[ohc].tree
        run == [cmd |-> "init",
                remote |-> IF o.remote # "" THEN o.remote ELSE "none",
                branch |-> IF o.branch # "" THEN o.branch ELSE "master",
                oremote |-> o.remote, obranch |-> o.branch, update |-> FALSE]
        desc == update_gitrepo_file(t.gitrepo, 0, ohc, ohc, method, run)
    IN IF chk # "none" THEN Res(chk, st, H)
       ELSE IF t.files = NoFiles THEN Res("NoSubdir", st, H)
       ELSE IF t.gitrepo.present THEN Res("AlreadySubrepo", st, H)
       ELSE Res("none", Append(st, MkCommit(<< ohc >>, [t EXCEPT !.gitrepo = desc], "tool")),
                [H EXCEPT !.head = Len(st) + 1, !.commit = ohc])

\* Variant of PullJoin: a conflicting merge or rebase is aborted, which
\* leaves the worktree as it was before.
PullJoinAborted(st, H, method) ==
    LET r == IF method = "rebase" THEN git_rebase(st, H) ELSE git_merge(st, H)
    IN IF r.err = "Conflicts" THEN Res("Conflicts", st, H) ELSE r

\* The reconciliation of a pull: merge or rebase of the fetched ref.
PullJoin(st, H, method) ==
    IF method = "rebase" THEN git_rebase(st, H) ELSE git_merge(st, H)

\* Variant of PullUpToDate: a pull that always goes on to the graft.
PullUpToDateNever(uhc, d) == FALSE

\* Is the pull already up to date?
PullUpToDate(uhc, d) == uhc = d.commit

\* The end of subrepo_pull, after a merge or rebase that went through: the
\* branch ref is set to the working branch and its content committed.
\* uhc: the upstream head the pull fetched.
PullFinish(st, H, uhc, method, run) ==
    LET H1 == [H EXCEPT !.branch = H.wbranch]
    IN do_subrepo_commit(st, H1, H1.wbranch, uhc, FALSE, method, TRUE, run)

\* command_pull / subrepo_pull without --force; o: the options --remote,
\* --branch and --update.
command_pull(st, H, o) ==
    LET chk == WorktreeCheck(H, "pull", FALSE)
        d == Desc(st, H.head)
        run == RunOf("pull", d, o)
        F == subrepo_fetch(H)
        D == git_delete_branch(F, FALSE, "pull")
        G == subrepo_branch_create(st, D.host, d.parent, d.method, "pull")
        J == PullJoin(G.st, G.host, d.method)
    IN IF chk # "none" THEN Res(chk, st, H)
       ELSE IF ~d.present THEN Res("NotASubrepo", st, H)
       ELSE IF run.remote = "none" THEN Res("NoRemote", st, H)
       ELSE IF up = 0 THEN Res("CommandFailed", st, H)
       ELSE IF PullUpToDate(up, d) /\ ~run.update THEN Res("UpToDate", st, F)
       ELSE IF G.err # "none" THEN Res(G.err, st, G.host)
       ELSE IF J.err # "none" THEN J
       ELSE PullFinish(J.st, J.host, up, d.method, run)

\* Result of a push: as Res, with the upstream branch head afterwards.
PRes(r, u) == [err |-> r.err, st |-> r.st, host |-> r.host, up |-> u]

\* Variant of PullFirst: a push that does not compare the upstream head
\* with the descriptor.
PullFirstSkipped(force, uhc, d) == FALSE

\* Variant of PullFirst: --force does not switch the check off.
PullFirstDespiteForce(force, uhc, d) == uhc # d.commit

\* The pull-first check of a push.
PullFirst(force, uhc, d) == ~force /\ uhc # d.commit

\* Variant of NothingNew: a push that always finds something to push.
NothingNewNever(uhc, tip) == FALSE

\* "Check if we have something to push": the branch tip is the fetched
\* upstream head.
NothingNew(uhc, tip) == uhc = tip

\* Variant of PushedDescriptor: the new parent is written, the commit field
\* keeps the upstream head the push fetched.
PushedDescriptorStale(d, tip, ohc, run) ==
    [update_gitrepo_file(d, tip, tip, ohc, d.method, run) EXCEPT !.commit = d.commit]

\* The descriptor a push writes: upstream_head_commit and subrepo_commit_ref
\* are both the pushed tip.
PushedDescriptor(d, tip, ohc, run) == update_gitrepo_file(d, tip, tip, ohc, d.method, run)

\* Variant of NonFastForward: the upstream repository takes any push.
NonFastForwardAccepted(st, u, tip) == FALSE

\* `git push` without --force is refused by the upstream repository when
\* its branch head u is no ancestor of the pushed tip.
NonFastForward(st, u, tip) == u # 0 /\ u \notin Anc(st, tip)

\* The part of subrepo_push after the branch is known: H has the branch,
\* uhc is self.upstream_head_commit (0 when no fetch was made or the
\* upstream branch does not exist), created is branch_created, newup is
\* new_upstream.
PushBranch(st, u, H, d, uhc, force, created, newup, run) ==
    LET tip == H.wbranch
        Del == git_delete_branch(H, TRUE, "push")
        H1 == [H EXCEPT !.push = tip]
        Del1 == git_delete_branch(H1, TRUE, "push")
        H2 == IF created THEN Del1.host ELSE H1
        ohc == H.head
        desc == PushedDescriptor(d, tip, ohc, run)
        tree == [st[ohc].tree EXCEPT !.gitrepo = desc]
    IN IF tip = 0 THEN PRes(Res("NoBranch", st, H), u)
       ELSE IF ~newup /\ NothingNew(uhc, tip)
       THEN IF created /\ Del.err # "none" THEN PRes(Del, u)
            ELSE PRes(Res("NothingToPush", st, IF created THEN Del.host ELSE H), u)
       ELSE IF ~force /\ ~newup /\ ~ContainsUpstreamHead(st, uhc, tip)
       THEN PRes(Res("NoUpstreamHead", st, H), u)
       ELSE IF ~force /\ NonFastForward(st, u, tip)
       THEN PRes(Res("CommandFailed", st, H), u)
       ELSE IF created /\ Del1.err # "none" THEN PRes(Res(Del1.err, st, H1), tip)
       ELSE IF tree = st[ohc].tree THEN PRes(Res("CommandFailed", st, H2), tip)
       ELSE PRes(Res("none", Append(st, MkCommit(<< ohc >>, tree, "tool")),
                     [H2 EXCEPT !.head = Len(st) + 1]), tip)

\* command_push / subrepo_push; arg: the branch argument is given (the
\* working branch subrepo/<subref>, as the recovery recipe prints it); o:
\* the options --remote, --branch and --update.  An upstream branch that
\* does not exist yet (u = 0) makes the fetch fail: new_upstream.
command_push(st, u, H, force, arg, o) ==
    LET d == Desc(st, H.head)
        run == RunOf("push", d, o)
        newup == u = 0
        F == IF newup THEN H ELSE subrepo_fetch(H)
        D == git_delete_branch(F, TRUE, "push")
        G == subrepo_branch_create(st, D.host, d.parent, d.method, "push")
        R == IF d.method # "rebase" THEN G
             ELSE IF ~git_rev_exists(G.st, G.host.fetch) THEN Res("Conflicts", G.st, G.host)
             ELSE git_rebase(G.st, G.host)
    IN IF ~d.present THEN PRes(Res("NotASubrepo", st, H), u)
       ELSE IF arg THEN PushBranch(st, u, H, d, 0, force, FALSE, FALSE, run)
       ELSE IF run.remote = "none" THEN PRes(Res("NoRemote", st, H), u)
       ELSE IF ~newup /\ PullFirst(force, u, d) THEN PRes(Res("PullFirst", st, F), u)
       ELSE IF D.err # "none" THEN PRes(Res(D.err, st, D.host), u)
       ELSE IF G.err # "none" THEN PRes(Res(G.err, st, G.host), u)
       ELSE IF R.err # "none" THEN PRes(R, u)
       ELSE PushBranch(R.st, u, R.host, d, u, force, TRUE, newup, run)

\* command_commit without a commit-ref argument, --fetch or --force.
command_commit(st, H) ==
    LET chk == WorktreeCheck(H, "commit", FALSE)
        d == Desc(st, H.head)
    IN IF chk # "none" THEN Res(chk, st, H)
       ELSE IF ~d.present THEN Res("NotASubrepo", st, H)
       ELSE IF ~git_rev_exists(st, H.fetch) THEN Res("NoFetchRef", st, H)
       ELSE do_subrepo_commit(st, H, H.wbranch, H.fetch, FALSE, d.method, FALSE,
                              RunOf("commit", d, NoOpts))

\* command_branch without --fetch.
command_branch(st, H, force) ==
    LET d == Desc(st, H.head)
        D == IF force THEN git_delete_branch(H, TRUE, "branch") ELSE Res("none", st, H)
    IN IF ~d.present THEN Res("NotASubrepo", st, H)
       ELSE IF D.err # "none" THEN Res(D.err, st, D.host)
       ELSE IF git_branch_exists(D.host) THEN Res("BranchExists", st, D.host)
       ELSE subrepo_branch_create(st, D.host, d.parent, d.method, "branch")

\* `git update-ref -d` of the four refs refs/subrepo/<subref>/*.
DeleteRefs(H) == [H EXCEPT !.fetch = 0, !.branch = 0, !.commit = 0, !.push = 0]

\* command_clean / subrepo_clean.
command_clean(st, H, force) ==
    LET d == Desc(st, H.head)
        W == git_remove_worktree(H, TRUE, "clean").host
        B == [W EXCEPT !.wbranch = 0]
    IN IF ~d.present THEN Res("NotASubrepo", st, H)
       ELSE IF force THEN Res("none", st, DeleteRefs(B))
       ELSE Res("none", st, B)

\* A variant in which no outcome ends the process.
FatalNever(out) == FALSE

\* Variant of Fatal: only errors end the process; a stopped merge or rebase
\* is reported and the process goes on.
FatalErrorsOnly(out) == out \notin {"Success", "UpToDate", "NothingToPush", "Conflicts"}

\* Does the outcome of a command end the process with an error?  Every
\* error raised does (dispatch_command, sys.exit(e.code)), and so does a
\* stopped merge or rebase (command_pull, command_push: error_join, then
\* sys.exit(self.CODE) with CODE 1); "up to date" and "no new commits to
\* push" are said and the command returns.
Fatal(out) == out \notin {"Success", "UpToDate", "NothingToPush"}

\* The exit status of a process whose last command ended with out.
ExitStatus(out) == IF Fatal(out) THEN 1 ELSE 0

RanWith(cmd, h, out, force, arg, o) ==
    last' = [cmd |-> cmd, host |-> h, out |-> out, force |-> force, arg |-> arg,
             edited |-> FALSE, o |-> o, exit |-> << ExitStatus(out) >>, all |-> FALSE,
             pend |-> << >>]

Ran(cmd, h, out, force, arg) == RanWith(cmd, h, out, force, arg, NoOpts)

Outcome(err) == IF err = "none" THEN "Success" ELSE err

\* main: assert_repo_is_ready comes before the command is dispatched; r is
\* what the command would do.
Ready(H, cmd, r) ==
    IF assert_working_copy_is_clean(H, cmd) # "none"
    THEN Res(assert_working_copy_is_clean(H, cmd), commits, H)
    ELSE r

Apply(r, h) ==
    /\ Len(r.st) <= Cap
    /\ commits' = r.st
    /\ hosts' = [hosts EXCEPT ![h] = r.host]

\* git subrepo clone [--force] [--branch b] [--method m] <remote> <subdir>
CloneWith(h, method, force, remote, o) ==
    LET r == Ready(hosts[h], "clone", command_clone(commits, hosts[h], method, force, remote, o))
    IN /\ Apply(r, h)
       /\ up' = up
       /\ RanWith("clone", h, Outcome(r.err), force, FALSE, o)

Clone(h, method) == CloneWith(h, method, FALSE, "R", NoOpts)

\* git subrepo init [--remote r] [--branch b] [--method m] <subdir>
InitSubrepo(h, method, o) ==
    LET r == Ready(hosts[h], "init", command_init_subrepo(commits, hosts[h], method, o))
    IN /\ Apply(r, h)
       /\ up' = up
       /\ RanWith("init", h, Outcome(r.err), FALSE, FALSE, o)

\* git subrepo pull [--remote r] [--branch b] [--update] <subdir>
PullWith(h, o) ==
    LET r == Ready(hosts[h], "pull", command_pull(commits, hosts[h], o))
    IN /\ Apply(r, h)
       /\ up' = up
       /\ RanWith("pull", h, Outcome(r.err), FALSE, FALSE, o)

Pull(h) == PullWith(h, NoOpts)

\* git subrepo push [--force] [--remote r] [--branch b] [--update] <subdir> [<branch>]
PushWith(h, force, arg, o) ==
    LET p == command_push(commits, up, hosts[h], force, arg, o)
        r == Ready(hosts[h], "push", p)
    IN /\ Apply(r, h)
       /\ up' = IF r.err = "WorkingTreeDirty" THEN up ELSE p.up
       /\ RanWith("push", h, Outcome(r.err), force, arg, o)

Push(h, force, arg) == PushWith(h, force, arg, NoOpts)

Commit(h) ==
    LET r == Ready(hosts[h], "commit", command_commit(commits, hosts[h]))
    IN /\ Apply(r, h)
       /\ up' = up
       /\ Ran("commit", h, Outcome(r.err), FALSE, FALSE)

Branch(h, force) ==
    LET r == Ready(hosts[h], "branch", command_branch(commits, hosts[h], force))
    IN /\ Apply(r, h)
       /\ up' = up
       /\ Ran("branch", h, Outcome(r.err), force, FALSE)

Clean(h, force) ==
    LET r == Ready(hosts[h], "clean", command_clean(commits, hosts[h], force))
    IN /\ Apply(r, h)
       /\ up' = up
       /\ Ran("clean", h, Outcome(r.err), force, FALSE)

\* ----- the environment --------------------------------------------------
\* The user commits a change to file f of the subdirectory in host h.
LocalCommit(h, f) ==
    LET c == hosts[h].head
        t == commits[c].tree
    IN /\ Room(1)
       /\ Made("user") < MaxEdits
       /\ t.gitrepo.present
       /\ t.files[f] # h
       /\ commits' = Append(commits, MkCommit(<< c >>, [t EXCEPT !.files[f] = h], "user"))
       /\ hosts' = [hosts EXCEPT ![h].head = Len(commits) + 1]
       /\ up' = up
       /\ last' = IF last.cmd # "none" /\ last.host = h THEN [last EXCEPT !.edited = TRUE]
                  ELSE Idle

\* The user commits a change to a file of the host outside the subdirectory.
OutsideCommit(h) ==
    LET c == hosts[h].head
        t == commits[c].tree
    IN /\ Room(1)
       /\ Made("user") < MaxEdits
       /\ t.gitrepo.present
       /\ commits' = Append(commits, MkCommit(<< c >>, [t EXCEPT !.other = @ + 1], "user"))
       /\ hosts' = [hosts EXCEPT ![h].head = Len(commits) + 1]
       /\ up' = up
       /\ last' = Idle

\* The user branches off an earlier host commit b, commits a change to file
\* f of the subdirectory there and merges the two lines without a conflict
\* (`git checkout -b other <b>`, commit, `git merge`): HEAD becomes the
\* merge commit, whose first parent is the former HEAD (first) or the side
\* commit.
MergeSide(h, b, f, first) ==
    LET c == hosts[h].head
        s == Len(commits) + 1
        tb == commits[b].tree
        tc == commits[c].tree
        ts == [tb EXCEPT !.files[f] = "side"]
    IN /\ Room(2)
       /\ Made("user") < MaxEdits
       /\ Made("merge") < MaxMerges
       /\ b \in Anc(commits, c) \ {c}
       /\ tb.gitrepo.present
       /\ tb.files[f] # "side"
       /\ ConflictFiles(tb.files, tc.files, ts.files) = {}
       /\ commits' = commits \o
             << MkCommit(<< b >>, ts, "user"),
                MkCommit(IF first THEN << c, s >> ELSE << s, c >>,
                         [tc EXCEPT !.files = Merge3(tb.files, tc.files, ts.files)],
                         "merge") >>
       /\ hosts' = [hosts EXCEPT ![h].head = s + 1]
       /\ up' = up
       /\ last' = IF last.cmd # "none" /\ last.host = h THEN [last EXCEPT !.edited = TRUE]
                  ELSE Idle

\* A colleague clones the host repository (`git clone`) and goes on in the
\* clone: it has the branch and the objects of its history, but no
\* refs/subrepo/* ref, no working branch, no worktree and none of the
\* objects that only those refs or the upstream repository hold.
FreshClone(h) ==
    LET H == [FreshHost(hosts[h].head) EXCEPT
                 !.missing = DOMAIN commits \ Anc(commits, hosts[h].head)]
    IN /\ Desc(commits, hosts[h].head).present
       /\ H # hosts[h]
       /\ hosts' = [hosts EXCEPT ![h] = H]
       /\ UNCHANGED << commits, up >>
       /\ last' = Idle

\* The user commits a directory of their own at the subdirectory's path,
\* where nothing is yet (test_init).
OwnSubdir(h) ==
    LET c == hosts[h].head
        t == commits[c].tree
    IN /\ Room(1)
       /\ Made("user") < MaxEdits
       /\ t.files = NoFiles /\ ~t.gitrepo.present
       /\ commits' = Append(commits, MkCommit(<< c >>, [t EXCEPT !.files = BaseFiles], "user"))
       /\ hosts' = [hosts EXCEPT ![h].head = Len(commits) + 1]
       /\ up' = up
       /\ last' = Idle

\* The user rewrites the host history (a rebase squashing the last two
\* commits): the old commits are no longer ancestors of HEAD.
HostRewrite(h) ==
    LET c == hosts[h].head
        p == commits[c].parents
    IN /\ Room(1)
       /\ Made("user") < MaxEdits
       /\ p # << >>
       /\ commits[c].tree.gitrepo.present
       /\ commits' = Append(commits, MkCommit(commits[p[1]].parents, commits[c].tree, "user"))
       /\ hosts' = [hosts EXCEPT ![h].head = Len(commits) + 1]
       /\ up' = up
       /\ last' = Idle

\* The user resolves the stopped merge or rebase in the worktree: the
\* conflicting files get the content `pick` chooses, the merge is committed
\* or the rebase continued.
Resolved(base, o, t, pick) ==
    [f \in Files |->
        IF f \in ConflictFiles(base, o, t)
        THEN (IF pick = "ours" THEN o[f] ELSE IF pick = "theirs" THEN t[f] ELSE "merged")
        ELSE Merge3(base, o, t)[f]]

ResolveMerge(st, H, pick) ==
    LET ours == H.wbranch
        theirs == H.wt.theirs
        files == Resolved(BaseFilesOf(st, ours, theirs), st[ours].tree.files,
                          st[theirs].tree.files, pick)
    IN Res("none", Append(st, MkCommit(<< ours, theirs >>, MkTree(files, NoGitrepo, 0), "resolve")),
           [H EXCEPT !.wbranch = Len(st) + 1, !.wt = CleanWorktree(H.wt.by)])

ResolveRebase(st, H, pick) ==
    LET c == H.wt.todo[1]
        base == IF st[c].parents = << >> THEN NoFiles ELSE st[st[c].parents[1]].tree.files
        files == Resolved(base, st[H.wt.cur].tree.files, st[c].tree.files, pick)
        st1 == Append(st, MkCommit(<< H.wt.cur >>, MkTree(files, NoGitrepo, 0), "resolve"))
    IN IF files = st[H.wt.cur].tree.files
       THEN Replay(st, H, H.wt.cur, H.wt.todo, 2)
       ELSE Replay(st1, H, Len(st) + 1, H.wt.todo, 2)

Resolve(h, pick) ==
    LET H == hosts[h]
        r == IF H.wt.state = "merging" THEN ResolveMerge(commits, H, pick)
             ELSE ResolveRebase(commits, H, pick)
    IN /\ H.wt.state \in {"merging", "rebasing"}
       /\ Apply(r, h)
       /\ up' = up
       /\ last' = Idle

\* A third party commits a change to file f on the upstream branch.
UpstreamCommit(f) ==
    LET t == commits[up].tree
    IN /\ up # 0
       /\ Room(1)
       /\ Made("owner") < MaxUpstream
       /\ commits' = Append(commits, MkCommit(<< up >>,
                                 [t EXCEPT !.files[f] = IF @ = "tp" THEN "tq" ELSE "tp"],
                                 "owner"))
       /\ up' = Len(commits) + 1
       /\ hosts' = hosts
       /\ last' = Idle

\* The upstream owner rewrites the branch (reset to the parent of the head,
\* a different commit, push --force): the old head leaves the history.
UpstreamRewrite(f) ==
    LET p == commits[up].parents
    IN /\ Room(1)
       /\ Made("owner") < MaxUpstream
       /\ p # << >>
       /\ commits' = Append(commits, MkCommit(<< p[1] >>,
                                 [commits[p[1]].tree EXCEPT !.files[f] = "rw"], "owner"))
       /\ up' = Len(commits) + 1
       /\ hosts' = hosts
       /\ last' = Idle

\* One host repository: its user syncs in both directions, resolves
\* conflicts and rewrites history; third parties change and rewrite upstream.
Next ==
    \/ \E h \in DOMAIN hosts, m \in Methods : Clone(h, m)
    \/ \E h \in DOMAIN hosts : Pull(h)
    \/ \E h \in DOMAIN hosts, arg \in BOOLEAN : Push(h, FALSE, arg)
    \/ \E h \in DOMAIN hosts : Commit(h)
    \/ \E h \in DOMAIN hosts : Clean(h, FALSE)
    \/ \E h \in DOMAIN hosts, f \in Files : LocalCommit(h, f)
    \/ \E h \in DOMAIN hosts : HostRewrite(h)
    \/ \E h \in DOMAIN hosts, pick \in {"ours", "theirs", "merged"} : Resolve(h, pick)
    \/ \E f \in OwnerFiles : UpstreamCommit(f)
    \/ \E f \in RewriteFiles : UpstreamRewrite(f)

Spec == Init /\ [][Next]_vars

\* One host repository whose user also runs the branch command.
NextGraft ==
    \/ \E h \in DOMAIN hosts, m \in Methods : Clone(h, m)
    \/ \E h \in DOMAIN hosts : Pull(h)
    \/ \E h \in DOMAIN hosts : Push(h, FALSE, FALSE)
    \/ \E h \in DOMAIN hosts : Branch(h, FALSE)
    \/ \E h \in DOMAIN hosts : Clean(h, FALSE)
    \/ \E h \in DOMAIN hosts, f \in Files : LocalCommit(h, f)
    \/ \E h \in DOMAIN hosts : HostRewrite(h)
    \/ \E f \in OwnerFiles : UpstreamCommit(f)

SpecGraft == Init /\ [][NextGraft]_vars

\* Two host repositories embedding the same upstream (test_issue29).
InitTwo ==
    /\ commits = << MkCommit(<< >>, MkTree(BaseFiles, NoGitrepo, 0), "init"),
                    MkCommit(<< >>, MkTree(NoFiles, NoGitrepo, 1), "init"),
                    MkCommit(<< >>, MkTree(NoFiles, NoGitrepo, 2), "init") >>
    /\ up = 1
    /\ hosts = [h \in Hosts |-> FreshHost(IF h = "h1" THEN 2 ELSE 3)]
    /\ last = Idle

NextTwo ==
    \/ \E h \in DOMAIN hosts, m \in Methods : Clone(h, m)
    \/ \E h \in DOMAIN hosts : Pull(h)
    \/ \E h \in DOMAIN hosts : Push(h, FALSE, FALSE)
    \/ \E h \in DOMAIN hosts, f \in Files : LocalCommit(h, f)

SpecTwo == InitTwo /\ [][NextTwo]_vars

\* The first of the two host repositories alone: its user commits inside
\* and outside the subdirectory, pulls and pushes, while third parties
\* commit upstream (test_push).
NextWalk ==
    \/ \E m \in Methods : Clone("h1", m)
    \/ Pull("h1")
    \/ Push("h1", FALSE, FALSE)
    \/ \E f \in Files : LocalCommit("h1", f)
    \/ OutsideCommit("h1")
    \/ \E f \in OwnerFiles : UpstreamCommit(f)

SpecWalk == InitTwo /\ [][NextWalk]_vars

\* The first host repository alone, with room for a reconciliation that
\* stops twice: its user pulls, pushes (with and without the branch
\* argument), resolves conflicts in the worktree and resumes with commit,
\* while third parties commit upstream (test_pull_merge, error_join).
NextResume ==
    \/ Clone("h1", "rebase")
    \/ Pull("h1")
    \/ \E arg \in BOOLEAN : Push("h1", FALSE, arg)
    \/ Commit("h1")
    \/ \E f \in OwnerFiles : LocalCommit("h1", f)
    \/ \E pick \in {"ours", "theirs", "merged"} : Resolve("h1", pick)
    \/ \E f \in OwnerFiles : UpstreamCommit(f)

SpecResume == InitTwo /\ [][NextResume]_vars

\* ----- one repository with two subrepos, and --all ----------------------
\* The two host records are the two subdirectories of ONE repository
\* (test_pull_all: the same upstream cloned twice).  Each record is the
\* repository as far as it concerns its subdirectory: head is the last
\* commit of the checked-out branch that touches the subdirectory (the
\* commits made for the other subdirectory change nothing in it and are
\* left out of its view), dirty is the state of the one working tree.
Other(h) == IF h = "h1" THEN "h2" ELSE "h1"

\* The subdirectory paths of the model in the order Python's sort gives to
\* 'bar', 'bar/sub' and 'bar2'.
SortedPaths == << << "bar" >>, << "bar", "/", "sub" >>, << "bar", "2" >> >>

PathIndex(p) == CHOOSE i \in DOMAIN SortedPaths : SortedPaths[i] = p

\* path.startswith(existing + '/'), and ref.startswith('refs/subrepo/' +
\* subref + '/') for the refs of another subdirectory.
Below(p, q) == Len(p) < Len(q) /\ SubSeq(q, 1, Len(p) + 1) = p \o << "/" >>

\* A repository with the subdirectory bar and a second one, whose path is
\* one of P; neither is a subrepo yet.
InitRepoWith(P) ==
    /\ commits = << MkCommit(<< >>, MkTree(BaseFiles, NoGitrepo, 0), "init"),
                    MkCommit(<< >>, MkTree(NoFiles, NoGitrepo, 1), "init"),
                    MkCommit(<< >>, MkTree(NoFiles, NoGitrepo, 1), "init") >>
    /\ up = 1
    /\ \E p \in P :
          hosts = [h \in Hosts |->
                     [FreshHost(IF h = "h1" THEN 2 ELSE 3) EXCEPT
                        !.subdir = IF h = "h1" THEN Subdir ELSE p,
                        !.subref = IF h = "h1" THEN Subdir ELSE p]]
    /\ last = Idle

\* The subdirectories bar and bar2 (test_pull_all).
InitRepo == InitRepoWith({<< "bar", "2" >>})

\* The second subdirectory is next to bar (bar2) or inside it (bar/sub).
InitLayouts == InitRepoWith({<< "bar", "/", "sub" >>, << "bar", "2" >>})

\* get_all_subrepos without --ALL: the subdirectories that have a
\* descriptor in HEAD, sorted, without those below another one.
get_all_subrepos(st, Hs) ==
    LET found == {h \in DOMAIN Hs : Desc(st, Hs[h].head).present}
        kept == {h \in found : ~\E g \in found : Below(Hs[g].subdir, Hs[h].subdir)}
        ord == SortAsc({PathIndex(Hs[h].subdir) : h \in kept})
    IN [i \in DOMAIN ord |-> CHOOSE h \in kept : PathIndex(Hs[h].subdir) = ord[i]]

\* A variant in which the prefix matches the refs of the cleaned
\* subdirectory only.
ForcedCleanOwn(Hs, h, force, all) == Hs

\* subrepo_clean with --force: the refs of other subdirectories that the
\* prefix refs/subrepo/<subref>/ (refs/subrepo/ with --all) matches.
ForcedClean(Hs, h, force, all) ==
    [g \in DOMAIN Hs |->
        IF g # h /\ force /\ (all \/ Below(Hs[h].subref, Hs[g].subref))
        THEN DeleteRefs(Hs[g]) ELSE Hs[g]]

\* dispatch_command: the command function run for subdirectory h.
RunSub(cmd, h, force) ==
    LET H == hosts[h]
    IN CASE cmd = "pull" -> PRes(command_pull(commits, H, NoOpts), up)
         [] cmd = "push" -> command_push(commits, up, H, force, FALSE, NoOpts)
         [] cmd = "branch" -> PRes(command_branch(commits, H, force), up)
         [] cmd = "commit" -> PRes(command_commit(commits, H), up)
         [] cmd = "init" -> PRes(command_init_subrepo(commits, H, "merge", NoOpts), up)
         [] cmd = "clean" -> PRes(command_clean(commits, H, force), up)

\* The effect of a command on the repository: what it does to its
\* subdirectory and the refs a forced clean deletes besides its own.
ApplyRepo(r, cmd, h, force, all) ==
    LET Hs == [hosts EXCEPT ![h] = r.host]
    IN /\ Len(r.st) <= MaxCommitsRepo
       /\ commits' = r.st
       /\ hosts' = IF cmd = "clean" /\ r.err = "none" THEN ForcedClean(Hs, h, force, all)
                   ELSE Hs

\* A process has started on an --all run and has subdirectories left.
Running == last.pend # << >>

\* The record of a process after its command for subdirectory h ended with
\* out: pend is what the loop of main has left when the command returns.
Process(cmd, h, out, force, all, pend) ==
    [cmd |-> cmd, host |-> h, out |-> out, force |-> force, arg |-> FALSE,
     edited |-> FALSE, o |-> NoOpts, all |-> all,
     exit |-> IF Fatal(out) \/ pend = << >> THEN << ExitStatus(out) >> ELSE << >>,
     pend |-> IF Fatal(out) THEN << >> ELSE pend]

\* git subrepo clone <remote> <subdir>
RepoClone(h, method) ==
    /\ ~Running
    /\ \E r \in {Ready(hosts[h], "clone",
                       command_clone(commits, hosts[h], method, FALSE, "R", NoOpts))} :
          /\ ApplyRepo(r, "clone", h, FALSE, FALSE)
          /\ up' = up
          /\ last' = Process("clone", h, Outcome(r.err), FALSE, FALSE, << >>)

\* git subrepo <cmd> [--force] <subdir>
RepoCommand(cmd, h, force) ==
    /\ ~Running
    /\ \E p \in {RunSub(cmd, h, force)} :
          \E r \in {Ready(hosts[h], cmd, p)} :
             /\ ApplyRepo(r, cmd, h, force, FALSE)
             /\ up' = IF r.err = "WorkingTreeDirty" THEN up ELSE p.up
             /\ last' = Process(cmd, h, Outcome(r.err), force, FALSE, << >>)

\* git subrepo <cmd> [--force] --all: the start of the process, up to the
\* end of the command for the first subdirectory.
AllStart(cmd, force) ==
    /\ ~Running
    /\ \E list \in {get_all_subrepos(commits, hosts)} :
          /\ list # << >>
          /\ \E p \in {RunSub(cmd, list[1], force)} :
                \E r \in {Ready(hosts[list[1]], cmd, p)} :
                   /\ ApplyRepo(r, cmd, list[1], force, TRUE)
                   /\ up' = IF r.err = "WorkingTreeDirty" THEN up ELSE p.up
                   /\ last' = Process(cmd, list[1], Outcome(r.err), force, TRUE, Tail(list))

\* The next turn of the loop of a process running with --all.
AllNext ==
    /\ Running
    /\ \E p \in {RunSub(last.cmd, last.pend[1], last.force)} :
          /\ ApplyRepo(p, last.cmd, last.pend[1], last.force, TRUE)
          /\ up' = p.up
          /\ last' = Process(last.cmd, last.pend[1], Outcome(p.err), last.force, TRUE,
                             Tail(last.pend))

\* The user commits a change to file f of subdirectory h.
RepoLocalCommit(h, f) ==
    LET c == hosts[h].head
        t == commits[c].tree
        r == Res("none", Append(commits, MkCommit(<< c >>, [t EXCEPT !.files[f] = h], "user")),
                 [hosts[h] EXCEPT !.head = Len(commits) + 1])
    IN /\ ~Running
       /\ ~hosts[h].dirty
       /\ Made("user") < MaxEdits
       /\ t.gitrepo.present
       /\ t.files[f] # h
       /\ ApplyRepo(r, "none", h, FALSE, FALSE)
       /\ up' = up
       /\ last' = Idle

\* The user changes a tracked file of the repository without committing /
\* drops the uncommitted changes (git reset --hard).
Edit(dirty) ==
    /\ ~Running
    /\ \E h \in DOMAIN hosts : hosts[h].dirty # dirty
    /\ hosts' = [h \in DOMAIN hosts |-> [hosts[h] EXCEPT !.dirty = dirty]]
    /\ UNCHANGED << commits, up >>
    /\ last' = Idle

\* One repository with two subrepos of the same upstream: its user clones,
\* commits in the subdirectories and runs pull and push on one subdirectory
\* or with --all, while third parties commit upstream.
NextAll ==
    \/ \E h \in DOMAIN hosts : RepoClone(h, "merge")
    \/ \E cmd \in {"pull", "push"}, h \in DOMAIN hosts : RepoCommand(cmd, h, FALSE)
    \/ \E cmd \in {"pull", "push"} : AllStart(cmd, FALSE)
    \/ AllNext
    \/ \E h \in DOMAIN hosts, f \in OwnerFiles : RepoLocalCommit(h, f)
    \/ \E f \in OwnerFiles : ~Running /\ UpstreamCommit(f)

SpecAll == InitRepo /\ [][NextAll]_vars

\* The same repository, whose user leaves uncommitted changes in the
\* working tree and runs each of the commands on the first subdirectory,
\* pull and branch also with --all (test_error, test_pull_all,
\* test_branch_all).
NextDirty ==
    \/ \E h \in DOMAIN hosts : RepoClone(h, "merge")
    \/ \E cmd \in {"init", "pull", "push", "branch", "commit"} : RepoCommand(cmd, "h1", FALSE)
    \/ \E cmd \in {"pull", "branch"} : AllStart(cmd, FALSE)
    \/ AllNext
    \/ \E dirty \in BOOLEAN : Edit(dirty)
    \/ \E f \in OwnerFiles : ~Running /\ UpstreamCommit(f)

SpecDirty == InitRepo /\ [][NextDirty]_vars

\* A repository whose second subrepo lies next to the first or inside it:
\* its user clones both, commits and runs branch and pull in bar, and
\* cleans one subdirectory or all of them, with and without --force
\* (test_clean).  The record of bar leaves out what lies below bar/sub.
NextClean ==
    \/ \E h \in DOMAIN hosts : RepoClone(h, "merge")
    \/ \E cmd \in {"pull", "branch"} : RepoCommand(cmd, "h1", FALSE)
    \/ \E h \in DOMAIN hosts, force \in BOOLEAN : RepoCommand("clean", h, force)
    \/ \E force \in BOOLEAN : AllStart("clean", force)
    \/ AllNext
    \/ \E f \in OwnerFiles : RepoLocalCommit("h1", f)
    \/ \E f \in OwnerFiles : ~Running /\ UpstreamCommit(f)

SpecClean == InitLayouts /\ [][NextClean]_vars

\* ----- subdirectory names and their encoding for ref names --------------
\* Python's str.replace: the occurrences of pat in s, found from the left
\* without overlap, each replaced by rep.
RECURSIVE Replace(_, _, _)
Replace(s, pat, rep) ==
    IF Len(s) < Len(pat) THEN s
    ELSE IF SubSeq(s, 1, Len(pat)) = pat
    THEN rep \o Replace(SubSeq(s, Len(pat) + 1, Len(s)), pat, rep)
    ELSE << s[1] >> \o Replace(Tail(s), pat, rep)

StartsWith(s, pat) == Len(pat) <= Len(s) /\ SubSeq(s, 1, Len(pat)) = pat

EndsWith(s, pat) == Len(pat) <= Len(s) /\ SubSeq(s, Len(s) - Len(pat) + 1, Len(s)) = pat

Contains(s, pat) == \E i \in 1..Len(s) : StartsWith(SubSeq(s, i, Len(s)), pat)

\* str.lstrip('/'), str.rstrip('/'), str.strip('/').
RECURSIVE LStrip(_)
LStrip(s) == IF s # << >> /\ s[1] = "/" THEN LStrip(Tail(s)) ELSE s

RECURSIVE RStrip(_)
RStrip(s) == IF s # << >> /\ s[Len(s)] = "/" THEN RStrip(SubSeq(s, 1, Len(s) - 1)) ELSE s

Strip(s) == RStrip(LStrip(s))

\* re.sub(r'/+', '/', s).
RECURSIVE CompressSlashes(_)
CompressSlashes(s) ==
    IF Len(s) < 2 THEN s
    ELSE IF s[1] = "/" /\ s[2] = "/" THEN CompressSlashes(Tail(s))
    ELSE << s[1] >> \o CompressSlashes(Tail(s))

\* The components of a name: what lies between its slashes.
RECURSIVE Split(_)
Split(s) ==
    IF ~Contains(s, << "/" >>) THEN << s >>
    ELSE LET i == CHOOSE k \in 1..Len(s) : s[k] = "/" /\ \A j \in 1..(k - 1) : s[j] # "/"
         IN << SubSeq(s, 1, i - 1) >> \o Split(SubSeq(s, i + 1, Len(s)))

\* The symbols that stand for more than one character.
Wide == {"bar", "sub", "lock", "subrepo"}

\* The characters no ref name may hold: space, ~ ^ : ? * [ backslash, and
\* the control characters (tab stands for them, DEL included).
BadChars == {" ", "~", "^", ":", "?", "*", "[", "\\", "\t"}

\* `git check-ref-format [--allow-onelevel] <name>`: every component is
\* non-empty, does not begin with a dot and does not end with .lock; no
\* two dots in a row, no forbidden character, no @{; the name is not the
\* single character @, does not end with a dot and has two components or
\* more unless one level is allowed.
check_ref_format(name, onelevel) ==
    LET comps == Split(name)
    IN /\ name # << "@" >>
       /\ \A i \in DOMAIN comps :
             /\ comps[i] # << >>
             /\ comps[i][1] # "."
             /\ ~EndsWith(comps[i], << ".", "lock" >>)
       /\ ~Contains(name, << ".", "." >>)
       /\ ~Contains(name, << "@", "{" >>)
       /\ \A i \in DOMAIN name : name[i] \notin BadChars
       /\ name[Len(name)] # "."
       /\ onelevel \/ Len(comps) >= 2

\* `git check-ref-format --normalize`: leading slashes removed, runs of
\* slashes collapsed.
Normalize(name) == CompressSlashes(LStrip(name))

\* check_and_normalize_subdir: the subdir argument must be given and not
\* be an absolute path; a leading ./ and trailing slashes are removed and
\* runs of slashes compressed.
check_and_normalize_subdir(subdir) ==
    LET a == IF StartsWith(subdir, << ".", "/" >>) THEN SubSeq(subdir, 3, Len(subdir)) ELSE subdir
        b == RStrip(a)
        c == IF Contains(b, << "/", "/" >>) THEN CompressSlashes(b) ELSE b
    IN IF subdir = << >> THEN [err |-> "SubdirNotSet", subdir |-> subdir]
       ELSE IF subdir[1] = "/" \/ (Len(subdir) > 1 /\ subdir[1] \notin Wide /\ subdir[2] = ":")
       THEN [err |-> "AbsolutePath", subdir |-> subdir]
       ELSE [err |-> "none", subdir |-> c]

\* The characters encode_subdir replaces one by one, each with its code, in
\* the order of the code (tab for range(1, 32), then space ~ ^ : ? * [).
Encoded ==
    << << "\t", << "%", "0", "9" >> >>, << " ", << "%", "2", "0" >> >>,
       << "~", << "%", "7", "e" >> >>, << "^", << "%", "5", "e" >> >>,
       << ":", << "%", "3", "a" >> >>, << "?", << "%", "3", "f" >> >>,
       << "*", << "%", "2", "a" >> >>, << "[", << "%", "5", "b" >> >> >>

RECURSIVE EncodeChars(_, _)
EncodeChars(s, i) ==
    IF i > Len(Encoded) THEN s
    ELSE EncodeChars(Replace(s, << Encoded[i][1] >>, Encoded[i][2]), i + 1)

\* A variant that encodes every name, the legal ones included.
AlreadyValidNever(subdir) == FALSE

\* encode_subdir, the first test: subrepo/<subdir> is a legal ref name.
AlreadyValid(subdir) == check_ref_format(<< "subrepo", "/" >> \o subdir, FALSE)

\* encode_subdir: the subdir is kept when subrepo/<subdir> is a legal ref
\* name; otherwise it is encoded step by step and the result normalized
\* by git, which is the last word on whether it is legal.
encode_subdir(subdir) ==
    LET pc == << "%", "2", "e" >>
        s1 == Replace(subdir, << "%" >>, << "%", "2", "5" >>)
        s2 == << "/" >> \o s1 \o << "/" >>
        s3 == Replace(s2, << "/", "." >>, << "/" >> \o pc)
        s4 == Replace(s3, << ".", "lock", "/" >>, pc \o << "lock", "/" >>)
        s5 == Strip(s4)
        s6 == Replace(s5, << ".", "." >>, pc \o pc)
        s7 == Replace(s6, pc \o << "." >>, pc \o pc)
        s8 == Replace(s7, << "." >> \o pc, pc \o pc)
        s9 == EncodeChars(s8, 1)
        s10 == IF Contains(s9, << "/", "/" >>) THEN CompressSlashes(s9) ELSE s9
        s11 == IF EndsWith(s10, << "." >>) THEN SubSeq(s10, 1, Len(s10) - 1) \o pc ELSE s10
        s12 == Replace(s11, << "@", "{" >>, << "%", "4", "0", "{" >>)
        s13 == Replace(s12, << "\\" >>, << "%", "5", "c" >>)
        n == Normalize(s13)
    IN IF AlreadyValid(subdir) THEN [err |-> "none", subref |-> subdir]
       ELSE IF check_ref_format(n, TRUE) THEN [err |-> "none", subref |-> n]
       ELSE [err |-> "BadSubref", subref |-> subdir]

\* command_setup up to the encoding: the subdir argument normalized, then
\* encoded.
command_setup(H) ==
    LET n == check_and_normalize_subdir(H.subdir)
        e == encode_subdir(n.subdir)
    IN IF n.err # "none" THEN [err |-> n.err, host |-> H]
       ELSE IF e.err # "none" THEN [err |-> e.err, host |-> [H EXCEPT !.subdir = n.subdir]]
       ELSE [err |-> "none", host |-> [H EXCEPT !.subdir = n.subdir, !.subref = e.subref]]

\* The characters of the subdir arguments tried (2 and e are ordinary
\* characters, and those of the codes), and their longest length.
Alphabet == {".", "/", "%", "2", "e", "lock", ":", "@", "{", "\\"}

MaxLen == 4

Paths == UNION {[1..n -> Alphabet] : n \in 1..MaxLen}

\* A path with a segment . or .. names a directory other than a new one
\* below the repository root.
DotSegment(subdir) ==
    \E i \in DOMAIN Split(subdir) : Split(subdir)[i] \in {<< "." >>, << ".", "." >>}

\* A repository in which nothing has been cloned yet; its user is about to
\* name a subdirectory on the command line.
InitEncode ==
    /\ commits = << MkCommit(<< >>, MkTree(BaseFiles, NoGitrepo, 0), "init"),
                    MkCommit(<< >>, MkTree(NoFiles, NoGitrepo, 1), "init") >>
    /\ up = 1
    /\ \E s \in Paths :
          hosts = [h \in {"h1"} |-> [FreshHost(2) EXCEPT !.subdir = s, !.subref = << >>]]
    /\ last = Idle

\* git subrepo clone <remote> -- <subdir> with the subdir the user named
\* (test_encode).  Whether git can make the directory of a path with a
\* segment . or .. is left open: empty says whether assert_subdir_empty
\* and the checkout go through.
CloneNamed(h, empty) ==
    LET s == command_setup(hosts[h])
        c == command_clone(commits, s.host, "merge", FALSE, "R", NoOpts)
        r == IF s.err # "none" THEN Res(s.err, commits, s.host)
             ELSE IF ~empty THEN Res("SubdirNotEmpty", commits, s.host)
             ELSE Res(c.err, c.st, [c.host EXCEPT !.subdir = s.host.subdir,
                                                  !.subref = s.host.subref])
    IN /\ last.cmd = "none"
       /\ empty \/ DotSegment(s.host.subdir)
       /\ Apply(r, h)
       /\ up' = up
       /\ RanWith("clone", h, Outcome(r.err), FALSE, FALSE, NoOpts)

NextEncode == \E empty \in BOOLEAN : CloneNamed("h1", empty)

SpecEncode == InitEncode /\ [][NextEncode]_vars

\* One host repository whose user pushes with and without --force while
\* third parties commit upstream (test_push_force).
NextForce ==
    \/ \E m \in Methods : Clone("h1", m)
    \/ Pull("h1")
    \/ \E force \in BOOLEAN : Push("h1", force, FALSE)
    \/ \E f \in Files : LocalCommit("h1", f)
    \/ \E f \in OwnerFiles : UpstreamCommit(f)

SpecForce == Init /\ [][NextForce]_vars

\* A host repository made by `git init`, without a commit: HEAD names no
\* commit (head 0) and dirty says that files are staged (test_clone).
InitEmpty ==
    /\ commits = << MkCommit(<< >>, MkTree(BaseFiles, NoGitrepo, 0), "init") >>
    /\ up = 1
    /\ hosts = [h \in {"h1"} |-> FreshHost(0)]
    /\ last = Idle

\* The user makes the first commit of the host repository; it has nothing
\* at the subdirectory.
FirstCommit(h) ==
    /\ hosts[h].head = 0
    /\ commits' = Append(commits, MkCommit(<< >>, MkTree(NoFiles, NoGitrepo, 1), "init"))
    /\ hosts' = [hosts EXCEPT ![h].head = Len(commits) + 1, ![h].dirty = FALSE]
    /\ up' = up
    /\ last' = Idle

\* The user of a new repository clones before and after the first commit,
\* with and without staged files, then commits, pulls and pushes, while
\* third parties commit upstream.
NextEmpty ==
    \/ \E m \in Methods : Clone("h1", m)
    \/ FirstCommit("h1")
    \/ \E dirty \in BOOLEAN : Edit(dirty)
    \/ hosts["h1"].head # 0 /\ Pull("h1")
    \/ hosts["h1"].head # 0 /\ Push("h1", FALSE, FALSE)
    \/ \E f \in Files : hosts["h1"].head # 0 /\ ~hosts["h1"].dirty /\ LocalCommit("h1", f)
    \/ \E f \in OwnerFiles : UpstreamCommit(f)

SpecEmpty == InitEmpty /\ [][NextEmpty]_vars

\* One host repository whose user also works on a side branch and merges
\* it: clone, commits to the subdirectory, the merge of a side branch,
\* branch, clean, pull and push, while third parties commit upstream
\* (test_branch_rev_list).
NextMerged ==
    \/ \E m \in Methods : Clone("h1", m)
    \/ Pull("h1")
    \/ Push("h1", FALSE, FALSE)
    \/ Branch("h1", FALSE)
    \/ Clean("h1", FALSE)
    \/ \E f \in Files : LocalCommit("h1", f)
    \/ \E b \in DOMAIN commits, f \in Files, first \in BOOLEAN : MergeSide("h1", b, f, first)
    \/ \E f \in OwnerFiles : UpstreamCommit(f)

SpecMerged == Init /\ [][NextMerged]_vars

\* One host repository that is also cloned afresh: clone, commits to the
\* subdirectory, a fresh clone of the host, branch, clean, pull and push,
\* while third parties commit upstream.
NextFresh ==
    \/ \E m \in Methods : Clone("h1", m)
    \/ FreshClone("h1")
    \/ Pull("h1")
    \/ Push("h1", FALSE, FALSE)
    \/ Branch("h1", FALSE)
    \/ Clean("h1", FALSE)
    \/ \E f \in Files : LocalCommit("h1", f)
    \/ \E f \in OwnerFiles : UpstreamCommit(f)

SpecFresh == Init /\ [][NextFresh]_vars

\* ----- a command killed between two of its steps ------------------------
\* What a killed process leaves: the object store, the host and the
\* upstream branch head after the steps it made.
Stage(st, H, u) == [st |-> st, host |-> H, up |-> u]

\* The states subrepo_pull and do_subrepo_commit pass through, in the
\* order of their steps: fetch ref; old branch deleted; graft (branch, then
\* worktree and branch ref); merge or rebase; branch ref; subdirectory
\* content and descriptor replaced in the working tree; commit (the
\* worktree and the commit ref are dealt with after it).
PullStages(st, H) ==
    LET d == Desc(st, H.head)
        run == RunOf("pull", d, NoOpts)
        F == subrepo_fetch(H)
        D == git_delete_branch(F, FALSE, "pull")
        G == subrepo_branch_create(st, D.host, d.parent, d.method, "pull")
        J == PullJoin(G.st, G.host, d.method)
        B == [J.host EXCEPT !.branch = J.host.wbranch]
        E == PullFinish(J.st, J.host, up, d.method, run)
        s2 == << Stage(st, F, up), Stage(st, D.host, up) >>
        s3 == << Stage(G.st, [G.host EXCEPT !.wt = D.host.wt, !.branch = D.host.branch], up),
                 Stage(G.st, G.host, up) >>
        s5 == << Stage(J.st, J.host, up), Stage(J.st, B, up) >>
        s7 == << Stage(J.st, [B EXCEPT !.dirty = TRUE], up),
                 Stage(E.st, [E.host EXCEPT !.wt = B.wt, !.commit = B.commit], up) >>
    IN IF WorktreeCheck(H, "pull", FALSE) # "none" \/ ~d.present \/ run.remote = "none"
          \/ up = 0 \/ PullUpToDate(up, d)
       THEN << >>
       ELSE IF G.err # "none" THEN s2
       ELSE IF J.err # "none" THEN s2 \o s3 \o << Stage(J.st, J.host, up) >>
       ELSE IF E.err # "none" THEN s2 \o s3 \o s5
       ELSE s2 \o s3 \o s5 \o s7

\* Variant of PushStages: the host commit is made before the branch is
\* pushed.
PushStagesCommitFirst(st, u, H, force) ==
    LET E == command_push(st, u, H, force, FALSE, NoOpts)
    IN IF E.err = "none" THEN << Stage(E.st, E.host, u) >> ELSE << >>

\* The states subrepo_push (no branch argument) passes through: fetch ref;
\* old worktree and branch deleted; graft; rebase; `git push`; push ref;
\* branch and worktree deleted; descriptor written in the working tree.
\* The commit that ends the push comes last.
PushStages(st, u, H, force) ==
    LET d == Desc(st, H.head)
        run == RunOf("push", d, NoOpts)
        newup == u = 0
        F == IF newup THEN H ELSE subrepo_fetch(H)
        D == git_delete_branch(F, TRUE, "push")
        G == subrepo_branch_create(st, D.host, d.parent, d.method, "push")
        R == IF d.method # "rebase" THEN G
             ELSE IF ~git_rev_exists(G.st, G.host.fetch) THEN Res("Conflicts", G.st, G.host)
             ELSE git_rebase(G.st, G.host)
        tip == R.host.wbranch
        H1 == [R.host EXCEPT !.push = tip]
        Del1 == git_delete_branch(H1, TRUE, "push")
        pushed == /\ tip # 0
                  /\ ~(~newup /\ NothingNew(u, tip))
                  /\ (force \/ newup \/ ContainsUpstreamHead(R.st, u, tip))
                  /\ (force \/ u = 0 \/ u \in Anc(R.st, tip))
        s1 == << Stage(st, F, u) >>
        s2 == << Stage(st, D.host, u) >>
        s4 == << Stage(G.st, [G.host EXCEPT !.wt = D.host.wt, !.branch = D.host.branch], u),
                 Stage(G.st, G.host, u) >>
        s5 == << Stage(R.st, R.host, u) >>
        s7 == << Stage(R.st, R.host, tip), Stage(R.st, H1, tip) >>
        s9 == << Stage(R.st, Del1.host, tip),
                 Stage(R.st, [Del1.host EXCEPT !.dirty = TRUE], tip) >>
    IN IF ~d.present \/ run.remote = "none" \/ (~newup /\ PullFirst(force, u, d)) THEN << >>
       ELSE IF D.err # "none" THEN s1
       ELSE IF G.err # "none" THEN s1 \o s2
       ELSE IF R.err # "none" \/ ~pushed THEN s1 \o s2 \o s4 \o s5
       ELSE IF Del1.err # "none" THEN s1 \o s2 \o s4 \o s5 \o s7
       ELSE s1 \o s2 \o s4 \o s5 \o s7 \o s9

\* The process of a command is killed after one of its steps.
Killed(cmd, h, force, S) ==
    \E k \in DOMAIN S :
        /\ Len(S[k].st) <= Cap
        /\ commits' = S[k].st
        /\ hosts' = [hosts EXCEPT ![h] = S[k].host]
        /\ up' = S[k].up
        /\ last' = [Idle EXCEPT !.cmd = cmd, !.host = h, !.out = "Killed", !.force = force]

PullKilled(h) ==
    /\ assert_working_copy_is_clean(hosts[h], "pull") = "none"
    /\ \E S \in {PullStages(commits, hosts[h])} : Killed("pull", h, FALSE, S)

PushKilled(h, force) ==
    /\ assert_working_copy_is_clean(hosts[h], "push") = "none"
    /\ \E S \in {PushStages(commits, up, hosts[h], force)} : Killed("push", h, force, S)

\* One host repository whose commands may be killed: clone, pull and push
\* run to their end, pull and push (also with --force) are killed after a step,
\* the user commits and resets the working tree, third parties commit
\* upstream.
NextKill ==
    \/ \E m \in Methods : Clone("h1", m)
    \/ Pull("h1")
    \/ Push("h1", FALSE, FALSE)
    \/ PullKilled("h1")
    \/ \E force \in BOOLEAN : PushKilled("h1", force)
    \/ Edit(FALSE)
    \/ \E f \in Files : LocalCommit("h1", f)
    \/ \E f \in OwnerFiles : UpstreamCommit(f)

SpecKill == Init /\ [][NextKill]_vars

\* ----- pushes of several hosts, interleaved -----------------------------
\* subrepo_push (no branch argument, no --force) up to its `git push`:
\* fetch, pull-first check, graft, rebase.  The host is left in the middle
\* of the push, with the upstream head it fetched.
PushPrepare(h) ==
    LET H == hosts[h]
        d == Desc(commits, H.head)
        run == RunOf("push", d, NoOpts)
        F == subrepo_fetch(H)
        D == git_delete_branch(F, TRUE, "push")
        G == subrepo_branch_create(commits, D.host, d.parent, d.method, "push")
    IN /\ H.pushing = << >>
       /\ assert_working_copy_is_clean(H, "push") = "none"
       /\ d.present /\ run.remote # "none" /\ up # 0
       /\ ~PullFirst(FALSE, up, d)
       /\ D.err = "none"
       /\ G.err = "none"
       /\ \E R \in {IF d.method # "rebase" THEN G ELSE git_rebase(G.st, G.host)} :
             /\ R.err = "none"
             /\ Len(R.st) <= Cap
             /\ commits' = R.st
             /\ hosts' = [hosts EXCEPT ![h] = [R.host EXCEPT !.pushing = << up >>]]
       /\ up' = up
       /\ last' = [Idle EXCEPT !.cmd = "push", !.host = h, !.out = "Pushing"]

\* The rest of the push: the checks on the branch, `git push` to the
\* upstream repository as it is now, push ref, cleanup, descriptor, commit.
PushPublish(h) ==
    LET H == [hosts[h] EXCEPT !.pushing = << >>]
        d == Desc(commits, H.head)
    IN /\ hosts[h].pushing # << >>
       /\ \E p \in {PushBranch(commits, up, H, d, hosts[h].pushing[1], FALSE, TRUE, FALSE,
                               RunOf("push", d, NoOpts))} :
             /\ Apply(p, h)
             /\ up' = p.up
             /\ Ran("push", h, Outcome(p.err), FALSE, FALSE)

\* Two host repositories whose pushes overlap: each user clones, commits,
\* pulls and pushes; a push may be overtaken by the other host's between
\* its fetch and its `git push`.
NextRace ==
    \/ \E h \in DOMAIN hosts, m \in Methods : hosts[h].pushing = << >> /\ Clone(h, m)
    \/ \E h \in DOMAIN hosts : hosts[h].pushing = << >> /\ Pull(h)
    \/ \E h \in DOMAIN hosts : PushPrepare(h)
    \/ \E h \in DOMAIN hosts : PushPublish(h)
    \/ \E h \in DOMAIN hosts, f \in Files : hosts[h].pushing = << >> /\ LocalCommit(h, f)

SpecRace == InitTwo /\ [][NextRace]_vars

\* The option sets the user draws from: the other URL and the other name
\* of the branch; --update needs --remote or --branch.
SyncOpts ==
    {o \in [remote : {""} \cup (Remotes \ {"R"}), branch : {""} \cup (Branches \ {UpstreamHeadBranch}), update : BOOLEAN] :
        /\ o.update => o.remote # "" \/ o.branch # ""
        /\ o.remote = "" \/ o.branch = ""
        /\ o.remote # "" => o.update}

PushOpts ==
    {o \in [remote : {""} \cup (Remotes \ {"R"}), branch : {""} \cup (Branches \ {UpstreamHeadBranch}), update : {FALSE}] :
        o.remote = "" \/ o.branch = ""}

InitOpts == [remote : {""} \cup (Remotes \ {"R2"}), branch : {""} \cup (Branches \ {UpstreamHeadBranch}), update : {FALSE}]

CloneOpts == [remote : {""}, branch : {""} \cup (Branches \ {UpstreamHeadBranch}), update : {FALSE}]

\* A host repository that has the subdirectory as its own content and an
\* upstream repository that is still empty (test_init, test_push_after_init).
InitOwn ==
    /\ commits = << MkCommit(<< >>, MkTree(BaseFiles, NoGitrepo, 1), "init") >>
    /\ up = 0
    /\ hosts = [h \in {"h1"} |-> FreshHost(1)]
    /\ last = Idle

\* The user makes the subdirectory a subrepo and publishes it, naming the
\* remote and the branch in options.
NextInit ==
    \/ \E h \in DOMAIN hosts, m \in Methods, o \in InitOpts : InitSubrepo(h, m, o)
    \/ \E h \in DOMAIN hosts, o \in PushOpts : PushWith(h, FALSE, FALSE, o)
    \/ \E h \in DOMAIN hosts : Branch(h, FALSE)
    \/ \E h \in DOMAIN hosts, f \in Files : LocalCommit(h, f)

SpecInit == InitOwn /\ [][NextInit]_vars

\* One host repository whose user clones, reclones, pulls and pushes with
\* --remote, --branch and --update.
NextMeta ==
    \/ \E h \in DOMAIN hosts, force \in BOOLEAN, o \in CloneOpts :
           CloneWith(h, "merge", force, "R", o)
    \/ \E h \in DOMAIN hosts, o \in SyncOpts : PullWith(h, o)
    \/ \E h \in DOMAIN hosts, o \in PushOpts : PushWith(h, FALSE, FALSE, o)
    \/ \E h \in DOMAIN hosts, f \in RewriteFiles : LocalCommit(h, f)
    \/ \E f \in OwnerFiles : UpstreamCommit(f)

SpecMeta == Init /\ [][NextMeta]_vars

\* ----- properties ---------------------------------------------------------
\* The step is a run of command cmd in host h.
Did(cmd, h) == last'.cmd = cmd /\ last'.host = h /\ ~last'.edited

\* The command run last in host h was cmd and ended with out.
Ended(cmd, h, out) == last.cmd = cmd /\ last.host = h /\ last.out = out /\ ~last.edited

\* The working branch, the worktree, HEAD and the object store are as before.
NothingGrafted(h) ==
    /\ hosts'[h].wbranch = hosts[h].wbranch
    /\ hosts'[h].wt = hosts[h].wt
    /\ hosts'[h].head = hosts[h].head
    /\ commits' = commits

\* Host h can start a pull that gets as far as the graft: it is a subrepo,
\* no worktree is in the way and the descriptor's parent is in HEAD's history.
GraftReady(h) ==
    LET d == Desc(commits, hosts[h].head)
    IN /\ d.present
       /\ hosts[h].wt = NoWorktree
       /\ d.parent # 0
       /\ d.parent \in Anc(commits, hosts[h].head)

\* C1: during a pull, when the upstream commit recorded in the descriptor is
\* no longer in the history of the fetched upstream head, the pull ends
\* with the history-rewritten error; and whenever it ends so, there is no
\* working branch and no worktree, no commit was made (HEAD and the object
\* store are as before) and the descriptor is unchanged.
C1_PullHistoryRewritten ==
    [][\A h \in DOMAIN hosts :
         Did("pull", h) =>
           /\ (GraftReady(h) /\ Desc(commits, hosts[h].head).commit \notin Anc(commits, up)
                  => last'.out = "HistoryRewritten")
           /\ (last'.out = "HistoryRewritten"
                  => /\ hosts'[h].wbranch = 0
                     /\ hosts'[h].wt = NoWorktree
                     /\ hosts'[h].head = hosts[h].head
                     /\ commits' = commits
                     /\ Desc(commits', hosts'[h].head) = Desc(commits, hosts[h].head))]_vars

C1_Witness == \E h \in DOMAIN hosts : Ended("pull", h, "HistoryRewritten")

\* The descriptor of host h names a parent that is not in HEAD's history.
ParentLost(h) ==
    LET d == Desc(commits, hosts[h].head)
    IN d.present /\ d.parent # 0 /\ d.parent \notin Anc(commits, hosts[h].head)

\* Command cmd, run in host h without --force, gets as far as the graft.
GraftReached(cmd, h) ==
    LET d == Desc(commits, hosts[h].head)
    IN CASE cmd = "branch" -> hosts[h].wbranch = 0
         [] cmd = "pull" -> hosts[h].wt = NoWorktree /\ up # d.commit
         [] cmd = "push" -> hosts[h].wt.state \in {"none", "clean"} /\ up = d.commit
                            /\ ~last'.arg

\* C2 as stated: when the descriptor's parent is not an ancestor of HEAD, the
\* graft run by branch, pull or push fails with the ancestor-not-found error
\* and no ref, working branch or worktree of the host is created, changed or
\* deleted.
C2_NoRefMutated ==
    [][\A h \in DOMAIN hosts : \A cmd \in {"branch", "pull", "push"} :
         Did(cmd, h) /\ ParentLost(h) /\ GraftReached(cmd, h)
           => last'.out = "AncestorNotFound" /\ hosts'[h] = hosts[h]]_vars

\* C2, amended: when the descriptor's parent is not an ancestor of HEAD, the
\* graft run by branch, pull or push fails with the ancestor-not-found
\* error; the graft itself creates nothing (no working branch, no worktree,
\* no commit; the branch, commit and push refs and HEAD are as before), but
\* what the command did before the graft stays: pull and push have set the
\* fetch ref to the upstream head and have deleted an existing working
\* branch (push with its worktree).
C2_AncestorNotFound ==
    [][\A h \in DOMAIN hosts : \A cmd \in {"branch", "pull", "push"} :
         Did(cmd, h) =>
           /\ (ParentLost(h) /\ GraftReached(cmd, h) => last'.out = "AncestorNotFound")
           /\ (last'.out = "AncestorNotFound"
                  => /\ ParentLost(h)
                     /\ hosts'[h] = [hosts[h] EXCEPT
                                       !.fetch = IF cmd = "branch" THEN @ ELSE up,
                                       !.wbranch = 0, !.wt = NoWorktree]
                     /\ commits' = commits
                     /\ up' = up)]_vars

\* A pull has ended with the ancestor-not-found error after moving the fetch ref.
C2_Witness ==
    \E h \in DOMAIN hosts :
        /\ Ended("pull", h, "AncestorNotFound")
        /\ hosts[h].fetch = up
        /\ hosts[h].fetch # Desc(commits, hosts[h].head).commit

\* C3 as stated: when the merge or rebase of a pull conflicts, the worktree
\* is left in its non-clean state and refs/subrepo/<subref>/commit and
\* refs/subrepo/<subref>/branch hold the values they had before the pull.
C3_RefsUntouched ==
    [][\A h \in DOMAIN hosts :
         Did("pull", h) /\ last'.out = "Conflicts"
           => /\ hosts'[h].wt.state \in {"merging", "rebasing"}
              /\ hosts'[h].commit = hosts[h].commit
              /\ hosts'[h].branch = hosts[h].branch]_vars

\* C3, amended: when the merge or rebase of a pull conflicts, the worktree
\* is left in its non-clean state, refs/subrepo/<subref>/commit, HEAD and
\* the push ref are as before the pull, and refs/subrepo/<subref>/branch has
\* been set by the graft: it is the tip of the working branch this pull
\* created, a commit that did not exist before the pull.
C3_ConflictLeavesWorktree ==
    [][\A h \in DOMAIN hosts :
         Did("pull", h) /\ last'.out = "Conflicts"
           => /\ hosts'[h].wt.state \in {"merging", "rebasing"}
              /\ hosts'[h].wt.by = "pull"
              /\ hosts'[h].commit = hosts[h].commit
              /\ hosts'[h].push = hosts[h].push
              /\ hosts'[h].head = hosts[h].head
              /\ hosts'[h].fetch = up
              /\ hosts'[h].branch = hosts'[h].wbranch
              /\ hosts'[h].branch \in DOMAIN commits' \ DOMAIN commits]_vars

C3_Witness ==
    \E h \in DOMAIN hosts :
        /\ Ended("pull", h, "Conflicts")
        /\ hosts[h].wt.state = "merging"
        /\ hosts[h].branch # hosts[h].commit

\* Host h holds the worktree of a pull that stopped with conflicts, and the
\* user has resolved them there (the merge is committed, the rebase done).
PullResolved(h) == hosts[h].wt.by = "pull" /\ hosts[h].wt.state = "clean"

\* C4 as stated: resuming a resolved pull with the commit command leaves
\* the state (subdirectory content and descriptor of the new HEAD, the four
\* refs, working branch, worktree) that the end of a conflict-free pull
\* with the same merge result leaves.
C4_ResumeEqualsCleanPull ==
    [][\A h \in DOMAIN hosts :
         Did("commit", h) /\ last'.out = "Success" /\ PullResolved(h)
           => LET d == Desc(commits, hosts[h].head)
                  r == PullFinish(commits, hosts[h], hosts[h].fetch, d.method,
                                  RunOf("pull", d, NoOpts))
              IN r.err = "none" /\ commits' = r.st /\ hosts'[h] = r.host]_vars

\* Host h is a subrepo whose descriptor records a commit other than the
\* current head of the upstream branch.
UpstreamMoved(h) ==
    LET d == Desc(commits, hosts[h].head)
    IN d.present /\ up # d.commit

C6_PushRecordsUpstreamHead ==
    [][\A h \in DOMAIN hosts :
         Did("push", h) =>
           /\ (last'.out = "Success"
                  => /\ Desc(commits', hosts'[h].head).commit = up'
                     /\ hosts'[h].push = up'
                     /\ up' \in DOMAIN commits'
                     /\ commits'[up'].tree.files = commits'[hosts'[h].head].tree.files)
           /\ (last.cmd = "push" /\ last.host = h /\ last.out = "Success"
                 /\ last.edited /\ ~last'.arg
                  => last'.out = "Success")]_vars

\* A second push has succeeded: the local commit under the push commit
\* records an upstream head that an earlier push made.
C6_Witness ==
    \E h \in DOMAIN hosts :
        /\ Ended("push", h, "Success")
        /\ LET d == Desc(commits, hosts[h].head)
           IN /\ d.commit = up
              /\ commits[Desc(commits, d.parent).commit].by = "tool"

\* C7: when a push without a branch argument ends in success or in
\* nothing-to-push, the working branch it created and the worktree of that
\* branch no longer exist.
C7_PushRemovesWorkingBranch ==
    [][\A h \in DOMAIN hosts :
         Did("push", h) /\ ~last'.arg /\ last'.out \in {"Success", "NothingToPush"}
           => /\ hosts'[h].wbranch = 0
              /\ hosts'[h].wt = NoWorktree
              /\ hosts'[h].branch \in DOMAIN commits']_vars

\* A push has succeeded; its graft has been made (the branch ref names it)
\* and the working branch is gone.
C7_Witness ==
    \E h \in DOMAIN hosts :
        /\ Ended("push", h, "Success")
        /\ hosts[h].branch # 0
        /\ hosts[h].wbranch = 0
        /\ hosts[h].wt = NoWorktree

\* The host has no local commit to push: every commit since the descriptor's
\* parent is a sync commit made by git-subrepo, the descriptor records the
\* upstream head, and no unfinished worktree is in the way.
NoLocalCommits(h) ==
    LET d == Desc(commits, hosts[h].head)
    IN /\ d.present
       /\ up = d.commit
       /\ hosts[h].wt.state \in {"none", "clean"}
       /\ d.parent # 0
       /\ d.parent \in Anc(commits, hosts[h].head)
       /\ \A c \in Range(CommitList(commits, d.parent, hosts[h].head)) :
              commits[c].by = "tool"

\* C8 as stated: a push that reports nothing-to-push leaves the branch,
\* commit and push refs, the host branch and the upstream branch as they
\* were.
C8_NoRefMutated ==
    [][\A h \in DOMAIN hosts :
         Did("push", h) /\ last'.out = "NothingToPush"
           => /\ hosts'[h].branch = hosts[h].branch
              /\ hosts'[h].commit = hosts[h].commit
              /\ hosts'[h].push = hosts[h].push
              /\ hosts'[h].head = hosts[h].head
              /\ up' = up]_vars

\* C8, amended: a push without --force and without a branch argument, run
\* when the host has no new local commits and the descriptor records the
\* upstream head, reports nothing-to-push; a push reporting it leaves the
\* commit and push refs, HEAD, the upstream branch and the object store as
\* they were, sets the fetch ref and the branch ref to the upstream head,
\* and deletes the working branch with its worktree.
C8_NothingToPush ==
    [][\A h \in DOMAIN hosts :
         Did("push", h) /\ ~last'.arg /\ ~last'.force
           => /\ (NoLocalCommits(h) => last'.out = "NothingToPush")
              /\ (last'.out = "NothingToPush"
                    => /\ hosts'[h] = [hosts[h] EXCEPT !.fetch = up, !.branch = up,
                                                        !.wbranch = 0, !.wt = NoWorktree]
                       /\ up' = up
                       /\ commits' = commits)]_vars

\* A push right after a clone has reported nothing-to-push and has created
\* the branch ref.
C8_Witness ==
    \E h \in DOMAIN hosts :
        /\ Ended("push", h, "NothingToPush")
        /\ hosts[h].branch = up
        /\ hosts[h].push = 0
        /\ hosts[h].commit = up

\* The user of host h has committed exactly one change, to file f.
OneChange(h, f) ==
    LET mine == {c \in Anc(commits, hosts[h].head) : commits[c].by = "user"}
    IN Cardinality(mine) = 1 /\ \A c \in mine : commits[c].tree.files[f] = h

\* The commits of the upstream history that bring value v into file f.
Introducing(f, v) ==
    {c \in Anc(commits, up) :
        /\ commits[c].tree.files[f] = v
        /\ \A p \in Range(commits[c].parents) : commits[p].tree.files[f] # v}

\* The two hosts have taken turns as in test_issue29: each has committed one
\* change, to a file of its own; host 1 has pushed; host 2 has pulled and
\* pushed, so the upstream head is the tip it pushed, with host 1's tip in
\* its history; host 1 has pulled last, successfully; nothing is left
\* unpushed.
TurnsTaken ==
    /\ DOMAIN hosts = Hosts
    /\ Ended("pull", "h1", "Success")
    /\ hosts["h1"].push # 0
    /\ hosts["h1"].push # up
    /\ hosts["h1"].push \in Anc(commits, up)
    /\ hosts["h2"].push = up
    /\ \E f \in Files : \E g \in Files \ {f} : OneChange("h1", f) /\ OneChange("h2", g)
    /\ \A h \in Hosts : NoLocalCommits(h)

\* C9: after two hosts with a change each, to different files, have taken
\* turns (host 1 pushes, host 2 pulls then pushes, host 1 pulls), the
\* upstream content and host 1's subdirectory content are the same and hold
\* both changes, and the upstream history has exactly one commit bringing
\* in each change.
C9_UnionOfChanges ==
    TurnsTaken =>
        /\ commits[up].tree.files = commits[hosts["h1"].head].tree.files
        /\ \A h \in Hosts, f \in Files :
              OneChange(h, f) =>
                  /\ commits[up].tree.files[f] = h
                  /\ commits[hosts["h1"].head].tree.files[f] = h
                  /\ Cardinality(Introducing(f, h)) = 1

C9_Witness ==
    /\ TurnsTaken
    /\ OneChange("h1", "a")
    /\ OneChange("h2", "b")
    /\ commits[up].tree.files = [a |-> "h1", b |-> "h2"]

\* C10: a pull run after a successful pull of the same host, with the
\* upstream head still the commit the descriptor records, reports
\* up-to-date; and a pull that reports up-to-date leaves HEAD (so the
\* descriptor), the working branch, the worktree, the branch, commit and
\* push refs and the object store unchanged: it only rewrites the fetch ref
\* with the upstream head.
C10_PullIdempotent ==
    [][\A h \in DOMAIN hosts :
         Did("pull", h) =>
           /\ (last.cmd = "pull" /\ last.host = h /\ last.out = "Success"
                  => last'.out = "UpToDate")
           /\ (LET d == Desc(commits, hosts[h].head)
               IN d.present /\ hosts[h].wt = NoWorktree /\ up = d.commit
                    => last'.out = "UpToDate")
           /\ (last'.out = "UpToDate"
                  => /\ hosts'[h] = [hosts[h] EXCEPT !.fetch = up]
                     /\ commits' = commits
                     /\ up' = up)]_vars

\* A pull has reported up-to-date; the working branch that the successful
\* pull before it left is still there.
C10_Witness ==
    \E h \in DOMAIN hosts :
        /\ Ended("pull", h, "UpToDate")
        /\ hosts[h].wbranch # 0
        /\ hosts[h].wbranch = hosts[h].commit
        /\ Desc(commits, hosts[h].head).commit = hosts[h].fetch

\* The graft of a push or of a pull that stopped with conflicts, seen after
\* the step: the walked host commits, the upstream commit the first of them
\* records, and the commits the graft made (the branch ref names its tip).
Walked(h) ==
    CommitList(commits, Desc(commits, hosts[h].head).parent, hosts[h].head)

GraftBase(h) == gitrepo_commit(commits, Walked(h)[1])

Grafted(h) ==
    {c \in Anc(commits', hosts'[h].branch) : c \notin DOMAIN commits}

\* The step is a push (no branch argument) or a pull of host h whose graft
\* was made from a recorded parent and is still to be seen.
GraftSeen(h) ==
    /\ \/ Did("push", h) /\ ~last'.arg
             /\ last'.out \in {"Success", "NothingToPush", "NoUpstreamHead",
                                "CommandFailed", "Conflicts"}
       \/ Did("pull", h) /\ last'.out = "Conflicts"
    /\ Desc(commits, hosts[h].head).parent # 0

\* The i-th walked commit changes the content of the subdirectory (the
\* descriptor apart): it differs from the walked commit before it, the
\* first one from the upstream commit it records.
ContentChanged(h, i) ==
    LET l == Walked(h)
    IN commits[l[i]].tree.files #
         (IF i = 1 THEN commits[GraftBase(h)].tree.files ELSE commits[l[i - 1]].tree.files)

\* The i-th walked commit, not the first, records another upstream commit
\* than the one before it, and the method is merge.
Joined(h, i) ==
    LET l == Walked(h)
    IN /\ i > 1
       /\ Desc(commits, hosts[h].head).method # "rebase"
       /\ gitrepo_commit(commits, l[i]) # gitrepo_commit(commits, l[i - 1])

\* The walked commits made by the user that change the subdirectory.
UserTouching(h) ==
    {i \in DOMAIN Walked(h) : commits[Walked(h)[i]].by = "user" /\ ContentChanged(h, i)}

MergesIn(S) == {c \in S : Len(commits'[c].parents) = 2}

\* C11 as stated: the graft has exactly one non-merge commit for each of
\* the N host commits after the recorded parent that touch the
\* subdirectory, and at most one merge commit more, which is then the
\* leading one (its first parent is not a commit of the graft).
C11_OnlyLeadingMerge ==
    [][\A h \in DOMAIN hosts :
         GraftSeen(h) =>
           /\ Cardinality(Grafted(h) \ MergesIn(Grafted(h))) = Cardinality(UserTouching(h))
           /\ Cardinality(MergesIn(Grafted(h))) <= 1
           /\ \A m \in MergesIn(Grafted(h)) : commits'[m].parents[1] \notin Grafted(h)]_vars

\* C11, amended: the graft made from a recorded parent has exactly one
\* commit for each walked host commit that changes the content of the
\* subdirectory or (method merge) records a new upstream commit; the
\* latter are merge commits with that upstream commit as second parent and
\* stand where the host's sync commit stands, not only at the front.  The
\* commits of the graft are a chain on top of the upstream commit the first
\* walked commit records, each with the subdirectory content of its host
\* commit and no descriptor.  Host commits that change nothing in the
\* subdirectory contribute no commit.
C11_GraftCount ==
    [][\A h \in DOMAIN hosts :
         GraftSeen(h) =>
           LET l == Walked(h)
               kept == {i \in DOMAIN l : ContentChanged(h, i) \/ Joined(h, i)}
               ks == SortAsc(kept)
               gs == SortAsc(Grafted(h))
           IN /\ Len(gs) = Len(ks)
              /\ \A n \in DOMAIN gs :
                    /\ commits'[gs[n]].tree.files = commits[l[ks[n]]].tree.files
                    /\ commits'[gs[n]].parents[1] = (IF n = 1 THEN GraftBase(h) ELSE gs[n - 1])
                    /\ Len(commits'[gs[n]].parents) = (IF Joined(h, ks[n]) THEN 2 ELSE 1)
                    /\ (Joined(h, ks[n])
                          => commits'[gs[n]].parents[2] = gitrepo_commit(commits, l[ks[n]]))
              /\ (kept = {} => hosts'[h].branch = GraftBase(h))]_vars

\* A push has succeeded whose graft walked a commit outside the
\* subdirectory and a commit changing it: of the three walked commits (with
\* the sync commit) one commit was grafted and pushed.
C11_Witness ==
    \E h \in DOMAIN hosts :
        /\ Ended("push", h, "Success")
        /\ LET ohc == commits[hosts[h].head].parents[1]
               l == CommitList(commits, Desc(commits, ohc).parent, ohc)
           IN /\ Len(l) = 3
              /\ \E i \in 2..3 : /\ commits[l[i]].by = "user"
                                  /\ commits[l[i]].tree = [commits[l[i - 1]].tree EXCEPT
                                                             !.other = @ + 1]
              /\ commits[up].parents = << Desc(commits, ohc).commit >>
              /\ hosts[h].branch = up

\* One host repository and all five commands that commit to it: clone and
\* reclone, init of a directory of the user's own, pull, push (with and
\* without --force and branch argument), commit after a resolution; the
\* user commits and resolves, third parties commit upstream.
NextFrame ==
    \/ \E m \in Methods, force \in BOOLEAN : CloneWith("h1", m, force, "R", NoOpts)
    \/ OwnSubdir("h1")
    \/ \E m \in Methods, o \in InitOpts :
           o.remote # "" /\ o.branch = "" /\ InitSubrepo("h1", m, o)
    \/ Pull("h1")
    \/ \E force, arg \in BOOLEAN : Push("h1", force, arg)
    \/ Commit("h1")
    \/ \E f \in Files : LocalCommit("h1", f)
    \/ Resolve("h1", "theirs")
    \/ \E f \in OwnerFiles : UpstreamCommit(f)

SpecFrame == Init /\ [][NextFrame]_vars

C13_GraftNoOp ==
    [][\A h \in DOMAIN hosts :
         hosts[h].wbranch # 0 =>
           /\ \A m \in Methods, p \in {0, Desc(commits, hosts[h].head).parent} :
                 subrepo_branch_create(commits, hosts[h], p, m, "branch")
                   = Res("none", commits, hosts[h])
           /\ Did("branch", h) /\ ~last'.force =>
                 /\ last'.out = "BranchExists"
                 /\ hosts'[h] = hosts[h]
                 /\ commits' = commits
                 /\ up' = up]_vars

\* The branch command has been run a second time, after a local commit
\* and a first run that grafted the branch (test_error).
C13_Witness ==
    \E h \in DOMAIN hosts :
        /\ Ended("branch", h, "BranchExists")
        /\ hosts[h].wbranch # 0
        /\ hosts[h].wt = CleanWorktree("branch")
        /\ commits[hosts[h].head].by = "user"

\* The host commits (those with content outside the subdirectory) are all
\* in the history of HEAD: the host history has not been rewritten.
NoRewriting(h) ==
    \A c \in DOMAIN commits : commits[c].tree.other # 0 => c \in Anc(commits, hosts[h].head)

\* The host commits of HEAD's history that write the parent field.
ParentWriters(h) ==
    {c \in Anc(commits, hosts[h].head) :
        /\ Desc(commits, c).present
        /\ Desc(commits, c).parent # 0
        /\ commits[c].parents # << >>
        /\ Desc(commits, commits[c].parents[1]).parent # Desc(commits, c).parent}

\* C14: as long as the host history is not rewritten, a non-empty parent
\* of the descriptor is an ancestor of HEAD, and every host commit that
\* writes the parent field writes its own first parent (HEAD when the
\* command started).
C14_ParentIsAncestor ==
    \A h \in DOMAIN hosts :
        NoRewriting(h) =>
          /\ Desc(commits, hosts[h].head).parent # 0 =>
                Desc(commits, hosts[h].head).parent \in Anc(commits, hosts[h].head)
          /\ \A c \in ParentWriters(h) : Desc(commits, c).parent = commits[c].parents[1]

\* A stopped pull has been resumed with the commit command in a history
\* that was never rewritten: the parent field is still the one the clone
\* wrote, which is no longer the first parent of HEAD.
C14_Witness ==
    \E h \in DOMAIN hosts :
        /\ Ended("commit", h, "Success")
        /\ NoRewriting(h)
        /\ Desc(commits, hosts[h].head).parent # 0
        /\ Desc(commits, hosts[h].head).parent # commits[hosts[h].head].parents[1]
        /\ ParentWriters(h) # {}

\* The step is a clone of host h into the empty subdirectory that went
\* through.
Cloned(h) ==
    /\ Did("clone", h)
    /\ last'.out = "Success"
    /\ ~Desc(commits, hosts[h].head).present

\* C15 as stated: after a clone from an upstream whose head is U1 the
\* descriptor has commit = U1 and parent = the host HEAD after the clone
\* commit.
C15_ParentIsNewHead ==
    [][\A h \in DOMAIN hosts :
         Cloned(h) =>
           /\ Desc(commits', hosts'[h].head).commit = up
           /\ Desc(commits', hosts'[h].head).parent = hosts'[h].head]_vars

\* C15, amended: after a clone from an upstream whose head is U1 into an
\* empty subdirectory the descriptor has commit = U1 and parent = the host
\* HEAD before the clone commit, which is the only parent of the clone
\* commit; the subdirectory has the content of U1.
C15_ParentIsOldHead ==
    [][\A h \in DOMAIN hosts :
         Cloned(h) =>
           /\ Desc(commits', hosts'[h].head).commit = up
           /\ Desc(commits', hosts'[h].head).parent = hosts[h].head
           /\ commits'[hosts'[h].head].parents = << hosts[h].head >>
           /\ commits'[hosts'[h].head].tree.files = commits[up].tree.files]_vars

\* A clone has just gone through after the upstream had moved on from its
\* first commit.
C15_Witness ==
    \E h \in DOMAIN hosts :
        /\ Ended("clone", h, "Success")
        /\ Desc(commits, hosts[h].head).commit = up
        /\ commits[up].parents # << >>
        /\ ~Desc(commits, commits[hosts[h].head].parents[1]).present

\* C16: an init that goes through makes exactly one new host commit, on
\* top of HEAD, that differs from HEAD in the descriptor only; the
\* descriptor has remote = none and branch = master unless --remote and
\* --branch name others, commit and parent empty, and the method given
\* (merge or rebase).  Nothing else is committed and upstream is untouched.
C16_InitDescriptor ==
    [][\A h \in DOMAIN hosts, m \in Methods, o \in InitOpts :
         InitSubrepo(h, m, o) /\ last'.out = "Success" =>
           LET old == hosts[h].head
               new == hosts'[h].head
           IN /\ ~Desc(commits, old).present
              /\ Len(commits') = Len(commits) + 1
              /\ SubSeq(commits', 1, Len(commits)) = commits
              /\ new = Len(commits')
              /\ commits'[new].parents = << old >>
              /\ commits'[new].tree.files = commits[old].tree.files
              /\ commits'[new].tree.other = commits[old].tree.other
              /\ Desc(commits', new) =
                    [present |-> TRUE,
                     remote |-> IF o.remote = "" THEN "none" ELSE o.remote,
                     branch |-> IF o.branch = "" THEN "master" ELSE o.branch,
                     commit |-> 0, parent |-> 0, method |-> m]
              /\ up' = up]_vars

\* An init without --remote has just made the subdirectory a subrepo.
C16_Witness ==
    \E h \in DOMAIN hosts :
        /\ Ended("init", h, "Success")
        /\ last.o.remote = ""
        /\ Desc(commits, hosts[h].head).remote = "none"
        /\ Desc(commits, hosts[h].head).commit = 0
        /\ ~Desc(commits, commits[hosts[h].head].parents[1]).present

\* The step is a clone, pull or commit command of host h that committed
\* to the host.
Published(h) ==
    /\ Did("clone", h) \/ Did("pull", h) \/ Did("commit", h)
    /\ last'.out = "Success"

\* C17: a clone, pull or commit command that goes through records the
\* fetched upstream head in commit; it rewrites parent (to HEAD as it was
\* before) when that upstream head is the tip of the ref it merged into
\* the host (refs/subrepo/<subref>/commit afterwards), and leaves parent
\* as it was when the merged tip is another commit (a true merge).
C17_ParentOnlyWhenCaughtUp ==
    [][\A h \in DOMAIN hosts :
         Published(h) =>
           LET old == Desc(commits, hosts[h].head)
               new == Desc(commits', hosts'[h].head)
               uhc == hosts'[h].fetch
               ref == hosts'[h].commit
           IN /\ new.commit = uhc
              /\ uhc = ref => new.parent = hosts[h].head
              /\ uhc # ref => new.parent = old.parent]_vars

\* A pull has gone through whose merged tip is a merge commit of the
\* local and the upstream changes: commit is the new upstream head, parent
\* is older than the first parent of HEAD.
C17_Witness ==
    \E h \in DOMAIN hosts :
        /\ Ended("pull", h, "Success")
        /\ Len(commits[hosts[h].commit].parents) = 2
        /\ Desc(commits, hosts[h].head).commit = hosts[h].fetch
        /\ Desc(commits, hosts[h].head).commit # hosts[h].commit
        /\ Desc(commits, hosts[h].head).parent # commits[hosts[h].head].parents[1]
        /\ Desc(commits, hosts[h].head).parent =
              Desc(commits, commits[hosts[h].head].parents[1]).parent

\* The step is a clone, pull or push of host h run on an existing
\* descriptor.
Resaved(h) ==
    /\ Did("clone", h) \/ Did("pull", h) \/ Did("push", h)
    /\ Desc(commits, hosts[h].head).present

\* The remote (respectively branch) override of the step is one that the
\* claim lets through: --update with the override, or push or clone with
\* the override.
RemoteOverride == last'.o.remote # "" /\ (last'.o.update \/ last'.cmd \in {"push", "clone"})

BranchOverride == last'.o.branch # "" /\ (last'.o.update \/ last'.cmd \in {"push", "clone"})

\* C18 as stated: on an existing descriptor remote (branch) is rewritten
\* only with --update and the --remote (--branch) override, or by a push
\* or clone with that override; every other operation, a reclone without
\* --branch included, leaves them unchanged.
C18_FieldsKept ==
    [][\A h \in DOMAIN hosts :
         Resaved(h) =>
           LET old == Desc(commits, hosts[h].head)
               new == Desc(commits', hosts'[h].head)
           IN /\ new.remote # old.remote => RemoteOverride
              /\ new.branch # old.branch => BranchOverride]_vars

\* C18, amended: on an existing descriptor remote is rewritten only with
\* --update and --remote, or by a push with --remote, and then to the value
\* given; branch is rewritten only with --update and --branch, or by a
\* push or clone with --branch, to the value given, or by a reclone
\* (clone --force) without --branch, to the branch the upstream HEAD
\* names.  Every other operation (pull --branch X without --update)
\* leaves them unchanged.
C18_FieldsKeptButReclone ==
    [][\A h \in DOMAIN hosts :
         Resaved(h) =>
           LET old == Desc(commits, hosts[h].head)
               new == Desc(commits', hosts'[h].head)
           IN /\ new.remote # old.remote => RemoteOverride /\ new.remote = last'.o.remote
              /\ new.branch # old.branch =>
                    \/ BranchOverride /\ new.branch = last'.o.branch
                    \/ /\ last'.cmd = "clone" /\ last'.force /\ last'.o.branch = ""
                       /\ new.branch = UpstreamHeadBranch]_vars

\* A reclone without --branch has gone through on a descriptor that named
\* the branch otherwise: the descriptor now names the upstream HEAD branch.
C18_Witness ==
    \E h \in DOMAIN hosts :
        /\ Ended("clone", h, "Success")
        /\ last.force
        /\ last.o.branch = ""
        /\ Desc(commits, commits[hosts[h].head].parents[1]).present
        /\ Desc(commits, commits[hosts[h].head].parents[1]).branch # UpstreamHeadBranch
        /\ Desc(commits, hosts[h].head).branch = UpstreamHeadBranch

\* C19: without --force, do_subrepo_commit applied to a commit ref that
\* does not exist or does not have the fetched upstream head among its
\* ancestors fails and leaves the object store and the host (HEAD with the
\* subdirectory content and the descriptor, refs/subrepo/<subref>/commit)
\* as they are, and so does the commit command that runs into it; and a
\* clone, pull or commit command without --force that has gone through
\* has merged a ref that exists and has the fetched upstream head among
\* its ancestors.
C19_PublishGuard ==
    \A h \in DOMAIN hosts :
        LET H == hosts[h]
            d == Desc(commits, H.head)
            c == command_commit(commits, H)
        IN /\ \A ref \in {0} \cup DOMAIN commits :
                 LET r == do_subrepo_commit(commits, H, ref, H.fetch, FALSE, d.method, TRUE,
                                            RunOf("commit", d, NoOpts))
                 IN (ref = 0 \/ H.fetch \notin Anc(commits, ref)) =>
                       /\ r.err \in {"NoCommitRef", "NoUpstreamHead"}
                       /\ r.st = commits
                       /\ r.host = H
           /\ c.err \in {"NoCommitRef", "NoUpstreamHead"} => c.st = commits /\ c.host = H
           /\ c.err = "none" =>
                 H.wbranch \in DOMAIN commits /\ H.fetch \in Anc(commits, H.wbranch)
           /\ (\E cmd \in {"clone", "pull", "commit"} : Ended(cmd, h, "Success")) /\ ~last.force =>
                 /\ H.commit \in DOMAIN commits
                 /\ H.fetch \in Anc(commits, H.commit)

\* The commit command has been run on a pull that stopped with conflicts
\* and was not resolved: the working branch does not contain the fetched
\* upstream head, and the command has failed.
C19_Witness ==
    \E h \in DOMAIN hosts :
        /\ Ended("commit", h, "NoUpstreamHead")
        /\ hosts[h].wt.state \in {"merging", "rebasing"}
        /\ hosts[h].fetch \notin Anc(commits, hosts[h].wbranch)

\* C20 as stated: every clone, pull or commit command that goes through
\* ends with no worktree left, and none of them removes a worktree that
\* holds a stopped merge or rebase.
C20_PublishDiscardsWorktree ==
    [][\A h \in DOMAIN hosts :
         /\ Published(h) => hosts'[h].wt.state = "none"
         /\ (Did("clone", h) \/ Did("pull", h) \/ Did("commit", h))
               /\ hosts[h].wt.state \in {"merging", "rebasing"}
               => hosts'[h].wt = hosts[h].wt /\ last'.out # "Success"]_vars

\* The worktree of host h is the one a pull created and has not been removed.
PullPending(h) == hosts[h].wt.state # "none" /\ hosts[h].wt.by = "pull"

ResolutionPending(h) ==
    /\ hosts[h].wt.state # "none"
    /\ hosts[h].wbranch # 0
    /\ hosts[h].commit # hosts[h].wbranch

\* C25: once a pull, or a push with method rebase, has stopped with
\* conflicts, no clone, pull, push, commit or branch command given without
\* --force removes the worktree or deletes or resets the working branch that
\* hold the user's resolution: after the command the worktree is still
\* there and the working branch still contains its former tip.
C25_ResolutionKept ==
    [][\A h \in DOMAIN hosts :
         (/\ ResolutionPending(h)
          /\ (\E cmd \in {"clone", "pull", "push", "commit", "branch"} : Did(cmd, h))
          /\ ~last'.force)
           => /\ hosts'[h].wt.state # "none"
              /\ hosts'[h].wbranch # 0
              /\ hosts[h].wbranch \in Anc(commits', hosts'[h].wbranch)]_vars

\* The user has resolved the stopped rebase of a push in host h: the
\* worktree the push created is clean again and the working branch, which
\* has something to push, contains the current upstream head.
PushResolved(h) ==
    /\ hosts[h].wt.by = "push"
    /\ hosts[h].wt.state = "clean"
    /\ hosts[h].wbranch # up
    /\ up \in Anc(commits, hosts[h].wbranch)
    /\ commits[hosts[h].wbranch].by = "resolve"

\* C26: after a push stopped by a rebase conflict and the user resolved it
\* on the working branch, `push <subdir> <branch>` with that branch and
\* without --force, when the branch contains the current upstream head,
\* succeeds: the upstream branch head becomes the tip of the working
\* branch, the push ref is created at it and the descriptor records it as
\* the upstream commit.
C26_RecipeFinishes ==
    [][\A h \in DOMAIN hosts :
         (Did("push", h) /\ last'.arg /\ ~last'.force /\ PushResolved(h))
           => /\ last'.out = "Success"
              /\ up' = hosts[h].wbranch
              /\ hosts'[h].push = hosts[h].wbranch
              /\ Desc(commits', hosts'[h].head).commit = hosts[h].wbranch]_vars

\* C27 as stated: whenever refs/subrepo/<subref>/fetch exists (a fetch has
\* occurred) and the subdirectory has a descriptor, the commit the descriptor
\* records is reachable from the fetch ref.
C27_CommitReachableFromFetch ==
    \A h \in DOMAIN hosts :
        LET d == Desc(commits, hosts[h].head)
        IN (hosts[h].fetch # 0 /\ d.present /\ d.commit # 0)
             => d.commit \in Anc(commits, hosts[h].fetch)

\* C27, amended: whenever refs/subrepo/<subref>/fetch exists and the
\* subdirectory has a descriptor, the commit the descriptor records is
\* reachable from the fetch ref, or it is the commit the last push sent
\* upstream (refs/subrepo/<subref>/push; a push does not move the fetch
\* ref), or it is a commit of the upstream owner that a rewrite of the
\* upstream branch has removed from it.
C27_CommitFetchedOrPushed ==
    \A h \in DOMAIN hosts :
        LET d == Desc(commits, hosts[h].head)
        IN (hosts[h].fetch # 0 /\ d.present /\ d.commit # 0)
             => \/ d.commit \in Anc(commits, hosts[h].fetch)
                \/ d.commit = hosts[h].push
                \/ commits[d.commit].by \in {"owner", "init"} /\ d.commit \notin Anc(commits, up)

\* A push has recorded a commit the fetch ref does not contain.
C27_Witness ==
    \E h \in DOMAIN hosts :
        /\ Ended("push", h, "Success")
        /\ hosts[h].fetch # 0
        /\ Desc(commits, hosts[h].head).commit = hosts[h].push
        /\ Desc(commits, hosts[h].head).commit \notin Anc(commits, hosts[h].fetch)

\* C29: a branch command that succeeds leaves the host checkout as it was
\* (HEAD names the same commit, whose tree, descriptor included, is
\* unchanged, as are the commits that existed, the upstream and the fetch,
\* commit and push refs) and creates the working branch subrepo/<subref>
\* and a clean worktree with that branch checked out.
C29_BranchLeavesCheckout ==
    [][\A h \in DOMAIN hosts :
         (Did("branch", h) /\ last'.out = "Success")
           => /\ hosts'[h].head = hosts[h].head
              /\ SubSeq(commits', 1, Len(commits)) = commits
              /\ Desc(commits', hosts'[h].head) = Desc(commits, hosts[h].head)
              /\ up' = up
              /\ hosts'[h].fetch = hosts[h].fetch
              /\ hosts'[h].commit = hosts[h].commit
              /\ hosts'[h].push = hosts[h].push
              /\ hosts[h].wbranch = 0
              /\ hosts'[h].wbranch # 0
              /\ hosts'[h].branch = hosts'[h].wbranch
              /\ hosts'[h].wt = [state |-> "clean", theirs |-> 0, cur |-> 0, todo |-> << >>,
                                 by |-> "branch"]]_vars

\* A branch command has grafted local commits onto a new working branch.
C29_Witness ==
    \E h \in DOMAIN hosts :
        /\ Ended("branch", h, "Success")
        /\ hosts[h].wt.state = "clean"
        /\ hosts[h].wbranch > hosts[h].head

ErrorOutcome(out) == out \notin {"none", "Success", "UpToDate", "NothingToPush", "Conflicts"}

\* The subdirectories a step of an --all process has before it: what the
\* running process has left, or the whole sorted list when the step starts
\* the process.
Todo == IF Running THEN last.pend ELSE get_all_subrepos(commits, hosts)

\* C22: every step of an --all process works on the first subdirectory
\* that is left, in sorted order, and changes nothing of the others; when
\* the command ends with an error in that subdirectory the process ends
\* with the error status and nothing pending, so none of the later
\* subdirectories is processed; otherwise, after success or a no-op, what
\* is left is the rest of the list, and the process ends with status 0
\* when the list is done.
C22_AllSequentialStopsOnError ==
    [][last'.all =>
         /\ Todo # << >>
         /\ last'.host = Todo[1]
         /\ \A g \in DOMAIN hosts : g # last'.host => hosts'[g] = hosts[g]
         /\ ErrorOutcome(last'.out) => last'.pend = << >> /\ last'.exit = << 1 >>
         /\ last'.out \in {"Success", "UpToDate", "NothingToPush"} =>
               /\ last'.pend = Tail(Todo)
               /\ last'.exit = IF Tail(Todo) = << >> THEN << 0 >> ELSE << >>
         /\ last'.exit = << 1 >> => last'.pend = << >>]_vars

\* push --all has ended with an error in the first subdirectory (the
\* upstream has moved on), the process has ended with status 1, and the
\* second subdirectory, which has a commit of its own to push, has not
\* been pushed.
C22_Witness ==
    /\ last.all /\ last.cmd = "push" /\ last.host = "h1"
    /\ ErrorOutcome(last.out)
    /\ last.exit = << 1 >> /\ last.pend = << >>
    /\ Desc(commits, hosts["h2"].head).present
    /\ commits[hosts["h2"].head].by = "user"
    /\ hosts["h2"].push = 0

\* The step ends a pull or push command with the outcome out.
CommandEnds(out) == last'.cmd \in {"pull", "push"} /\ last'.out = out

\* After the step the --all process goes on with the rest of the list.
GoesOn == last'.exit # << 1 >> /\ (last'.all => last'.pend = Tail(Todo))

\* C23 as stated: a pull or push that ends with conflicts pending, with
\* "up to date" or with "nothing to push" does not end the process with
\* the error status, and an --all process goes on with the remaining
\* subdirectories.
C23_NotEscalated ==
    [][(CommandEnds("Conflicts") \/ CommandEnds("UpToDate") \/ CommandEnds("NothingToPush"))
          => GoesOn]_vars

\* C23, amended: "up to date" and "nothing to push" do not end the process
\* with the error status, and an --all process goes on with the remaining
\* subdirectories (status 0 when none is left), HEAD and the upstream
\* being what they were; a pull or push that stops
\* with conflicts ends the process with exit status 1, under its own
\* outcome, and the remaining subdirectories of an --all process are not
\* processed.  The three outcomes are told apart.
C23_NoOpsNotEscalatedConflictsExit ==
    [][/\ (CommandEnds("UpToDate") \/ CommandEnds("NothingToPush")) =>
             /\ GoesOn
             /\ last'.pend = << >> => last'.exit = << 0 >>
             /\ hosts'[last'.host].head = hosts[last'.host].head
             /\ up' = up
       /\ CommandEnds("Conflicts") =>
             /\ last'.exit = << 1 >>
             /\ last'.pend = << >>
             /\ hosts'[last'.host].wt.state \in {"merging", "rebasing"}
             /\ \A g \in DOMAIN hosts : g # last'.host => hosts'[g] = hosts[g]
       /\ CommandEnds("UpToDate") => last'.cmd = "pull"
       /\ CommandEnds("NothingToPush") => last'.cmd = "push"]_vars

\* pull --all has stopped with conflicts in the first subdirectory: the
\* process has ended with status 1 and the second subdirectory, which is
\* behind the upstream, has not been pulled.
C23_Witness ==
    /\ last.all /\ last.cmd = "pull" /\ last.host = "h1"
    /\ last.out = "Conflicts"
    /\ last.exit = << 1 >> /\ last.pend = << >>
    /\ Desc(commits, hosts["h2"].head).present
    /\ Desc(commits, hosts["h2"].head).commit # up

\* The four refs refs/subrepo/<subref>/* of a host record.
Refs(H) == << H.fetch, H.branch, H.commit, H.push >>

NoRefs == << 0, 0, 0, 0 >>

\* The step is a clean of subdirectory h that has gone through.
Cleaned(h) == Did("clean", h) /\ last'.out = "Success"

\* What both readings of C28 share: clean removes the working branch and
\* the worktree of h and, without --force, leaves its refs; with --force
\* its refs are deleted; HEAD of the host (the subdirectory content and
\* the descriptor with it), the object store, the upstream, and the working
\* branch and worktree of the other subrepo stay as they are.
CleanOwn(h) ==
    /\ hosts'[h].wbranch = 0
    /\ hosts'[h].wt.state = "none"
    /\ Refs(hosts'[h]) = IF last'.force THEN NoRefs ELSE Refs(hosts[h])
    /\ hosts'[h].head = hosts[h].head
    /\ Desc(commits', hosts'[h].head) = Desc(commits, hosts[h].head)
    /\ commits' = commits
    /\ up' = up
    /\ \A g \in DOMAIN hosts \ {h} :
          hosts'[g] = [hosts[g] EXCEPT !.fetch = hosts'[g].fetch, !.branch = hosts'[g].branch,
                                       !.commit = hosts'[g].commit, !.push = hosts'[g].push]

\* C28 as stated: besides the above, a clean without --all, forced or not,
\* leaves the refs of the other subrepo as they are, and clean --force
\* --all deletes them.
C28_CleanFrame ==
    [][\A h \in DOMAIN hosts :
         Cleaned(h) =>
            /\ CleanOwn(h)
            /\ \A g \in DOMAIN hosts \ {h} :
                  Refs(hosts'[g]) = IF last'.force /\ last'.all THEN NoRefs
                                    ELSE Refs(hosts[g])]_vars

\* C28, amended: besides the above, the refs of the other subrepo are
\* deleted by clean --force when --all is given or when that subrepo lies
\* below the cleaned subdirectory (its refs are under refs/subrepo/<subref>/
\* as well), and are left as they are in every other case.
C28_CleanFrameButNested ==
    [][\A h \in DOMAIN hosts :
         Cleaned(h) =>
            /\ CleanOwn(h)
            /\ \A g \in DOMAIN hosts \ {h} :
                  Refs(hosts'[g]) =
                     IF last'.force /\ (last'.all \/ Below(hosts[h].subref, hosts[g].subref))
                     THEN NoRefs ELSE Refs(hosts[g])]_vars

\* clean --force bar has gone through in a repository whose second subrepo
\* is bar/sub: the subrepo bar/sub is still there and its fetch ref is gone.
C28_Witness ==
    /\ last.cmd = "clean" /\ last.host = "h1" /\ last.out = "Success"
    /\ last.force /\ ~last.all
    /\ hosts["h2"].subdir = << "bar", "/", "sub" >>
    /\ Desc(commits, hosts["h2"].head).present
    /\ Refs(hosts["h2"]) = NoRefs

\* The subdirectories of one repository in which two subrepos are cloned:
\* the symbols of their names (a dot, a slash, and the characters of the
\* code of the dot) and the longest length of the second one's name.
PairAlphabet == {".", "/", "%", "2", "e"}

MaxShort == 2

PairPaths(n) == UNION {[1..k -> PairAlphabet] : k \in 1..n}

\* A repository in which no subrepo has been cloned yet; its two records
\* stand for the two subdirectories its user is going to name.
InitPair ==
    /\ commits = << MkCommit(<< >>, MkTree(BaseFiles, NoGitrepo, 0), "init"),
                    MkCommit(<< >>, MkTree(NoFiles, NoGitrepo, 1), "init"),
                    MkCommit(<< >>, MkTree(NoFiles, NoGitrepo, 1), "init") >>
    /\ up = 1
    /\ hosts = [h \in Hosts |-> [FreshHost(IF h = "h1" THEN 2 ELSE 3) EXCEPT
                                    !.subdir = << >>, !.subref = << >>]]
    /\ last = Idle

\* command_setup: the names of the four refs of a subrepo.
refs_subrepo(subref) ==
    {<< "refs", "/", "subrepo", "/" >> \o subref \o << "/", n >> :
        n \in {"fetch", "branch", "commit", "push"}}

\* A path that does not name a new directory below the repository root: it
\* has a segment . or .., or it is absolute (.//x after the leading ./ has
\* been removed).  Whether git can make and add such a directory is left
\* open.
OutsideRoot(subdir) == DotSegment(subdir) \/ (subdir # << >> /\ subdir[1] = "/")

\* assert_subdir_empty for the second clone of a repository: the directory
\* of a subrepo cloned before, and every directory above it, has files.
SubdirTaken(Hs, h, subdir) ==
    \E g \in DOMAIN Hs \ {h} :
        /\ Hs[g].subref # << >>
        /\ Hs[g].subdir = subdir \/ Below(subdir, Hs[g].subdir)

\* git subrepo clone <remote> -- <subdir> in a repository that may have a
\* subrepo already.  A failed clone leaves the repository as it was.
ClonePair(h, subdir, empty) ==
    LET s == command_setup([hosts[h] EXCEPT !.subdir = subdir])
    IN /\ hosts[h].subref = << >>
       /\ empty => ~SubdirTaken(hosts, h, s.host.subdir)
       /\ ~empty => SubdirTaken(hosts, h, s.host.subdir) \/ OutsideRoot(s.host.subdir)
       /\ \E r \in {IF s.err # "none" THEN Res(s.err, commits, hosts[h])
                    ELSE IF ~empty THEN Res("SubdirNotEmpty", commits, hosts[h])
                    ELSE command_clone(commits, s.host, "merge", FALSE, "R", NoOpts)} :
             /\ Apply(IF r.err = "none" THEN r ELSE Res(r.err, commits, hosts[h]), h)
             /\ RanWith("clone", h, Outcome(r.err), FALSE, FALSE, NoOpts)
       /\ up' = up

NextPair ==
    \E h \in Hosts, empty \in BOOLEAN :
       \E subdir \in PairPaths(IF h = "h1" THEN MaxLen ELSE MaxShort) :
          ClonePair(h, subdir, empty)

SpecPair == InitPair /\ [][NextPair]_vars

\* A name as C30 wants it: no path segment starting with a dot, no two
\* dots in a row, no segment ending in .lock, no control character, space,
\* ~ ^ : ? * [ or backslash, no @{, no doubled slash (no empty segment),
\* no trailing dot.
LegalRefComponent(s) ==
    /\ s # << >>
    /\ \A i \in DOMAIN Split(s) :
          LET seg == Split(s)[i]
          IN /\ seg # << >>
             /\ seg[1] # "."
             /\ ~(Len(seg) >= 2 /\ seg[Len(seg) - 1] = "." /\ seg[Len(seg)] = "lock")
    /\ \A i \in DOMAIN s :
          /\ s[i] \notin {" ", "~", "^", ":", "?", "*", "[", "\\", "\t"}
          /\ i < Len(s) => ~(s[i] = "." /\ s[i + 1] = ".")
          /\ i < Len(s) => ~(s[i] = "@" /\ s[i + 1] = "{")
    /\ s[Len(s)] # "."

\* The clone has failed before it touched the repository: no ref of the
\* subrepo, no new commit, HEAD where it was.
SetupFailed(h) ==
    /\ last.out \in {"SubdirNotSet", "AbsolutePath", "BadSubref"}
    /\ Refs(hosts[h]) = NoRefs
    /\ hosts[h].head = 2
    /\ Len(commits) = 2
    /\ hosts[h].subref = << >>

\* C30: for every subdirectory path given to a command, either the
\* encoding yields a name that is legal as a ref component, or the whole
\* operation fails before it touches the repository; and a path that is
\* legal as it is (after the normalization of the subdir argument) is kept
\* unchanged as the ref segment.
C30_SubrefLegalOrFails ==
    \A h \in DOMAIN hosts :
        last.cmd = "clone" =>
           \/ SetupFailed(h)
           \/ /\ LegalRefComponent(hosts[h].subref)
              /\ LegalRefComponent(hosts[h].subdir) => hosts[h].subref = hosts[h].subdir

\* A clone has gone through into a subdirectory whose name is not legal in
\* a ref name: the ref segment differs from the path, is legal, and the
\* fetch ref has been made under it.
C30_Witness ==
    \E h \in DOMAIN hosts :
        /\ Ended("clone", h, "Success")
        /\ ~LegalRefComponent(hosts[h].subdir)
        /\ Contains(hosts[h].subdir, << ".", "lock" >>)
        /\ hosts[h].subref # hosts[h].subdir
        /\ LegalRefComponent(hosts[h].subref)
        /\ hosts[h].fetch # 0

\* The step is a push --force of host h, without branch argument, run while
\* the upstream branch has commits the host never pulled (the descriptor
\* records an upstream commit other than the upstream head) and the host
\* has changes of its own to push; no worktree is left from an earlier
\* command.
ForcedPastUpstream(h) ==
    /\ Did("push", h) /\ last'.force /\ ~last'.arg
    /\ hosts[h].wt.state = "none"
    /\ Desc(commits, hosts[h].head).present
    /\ up # 0
    /\ Desc(commits, hosts[h].head).commit # up
    /\ commits[hosts[h].head].tree.files
          # commits[Desc(commits, hosts[h].head).commit].tree.files

\* The upstream commits the host of the step never pulled.
Unpulled(h) == Anc(commits, up) \ Anc(commits, Desc(commits, hosts[h].head).commit)

\* C31 as stated: push --force goes through even when the upstream has
\* commits the host never pulled; afterwards the upstream head is the
\* grafted tip, none of the unpulled upstream commits is in the upstream
\* history, and a following pull finds the host up to date.
C31_ForceReplacesUpstream ==
    [][\A h \in DOMAIN hosts :
         ForcedPastUpstream(h) =>
            /\ last'.out = "Success"
            /\ up' = hosts'[h].push
            /\ Unpulled(h) \cap Anc(commits', up') = {}
            /\ (command_pull(commits, hosts[h], NoOpts).err = "UpToDate")']_vars

\* C31, amended: push --force skips the pull-first and the
\* contains-upstream-head checks.  With method merge it goes through even
\* when the upstream has commits the host never pulled; afterwards the
\* upstream head is the grafted tip, none of the unpulled commits is in
\* the upstream history, and a following pull finds the host up to date.
\* With method rebase the grafted branch is first rebased onto the fetched
\* upstream head: the push either stops with conflicts, the upstream and
\* HEAD being left as they were, or goes through with the rebased tip as
\* upstream head, whose history keeps every unpulled upstream commit; a
\* following pull finds the host up to date.
C31_ForceReplacesUnlessRebase ==
    [][\A h \in DOMAIN hosts :
         ForcedPastUpstream(h) =>
            LET method == Desc(commits, hosts[h].head).method
            IN /\ last'.out \in {"Success"} \cup (IF method = "rebase" THEN {"Conflicts"} ELSE {})
               /\ last'.out = "Conflicts" =>
                     /\ up' = up
                     /\ hosts'[h].head = hosts[h].head
               /\ last'.out = "Success" =>
                     /\ up' = hosts'[h].push
                     /\ Desc(commits', hosts'[h].head).commit = up'
                     /\ IF method = "rebase"
                        THEN Unpulled(h) \subseteq Anc(commits', up')
                        ELSE Unpulled(h) \cap Anc(commits', up') = {}
                     /\ (command_pull(commits, hosts[h], NoOpts).err = "UpToDate")']_vars

\* A push --force has gone through under method merge and an upstream
\* commit of a third party is no longer in the history of the upstream
\* branch.
C31_Witness ==
    \E h \in DOMAIN hosts :
        /\ Ended("push", h, "Success")
        /\ last.force
        /\ Desc(commits, hosts[h].head).method = "merge"
        /\ up = hosts[h].push
        /\ \E c \in DOMAIN commits : commits[c].by = "user"
        /\ \E c \in DOMAIN commits : commits[c].by = "owner" /\ c \notin Anc(commits, up)

\* C32: a clone into a host repository that has no commit yet and nothing
\* staged fails with the empty-repository error, exit status 1, and
\* creates nothing: HEAD still names no commit (no subdirectory, no
\* descriptor), no ref of the subrepo, no worktree or working branch, no
\* new object, the upstream as it was, and the working tree still clean.
C32_CloneIntoEmptyRefused ==
    [][\A h \in DOMAIN hosts :
         (Did("clone", h) /\ hosts[h].head = 0 /\ ~hosts[h].dirty) =>
            /\ last'.out = "EmptyRepository"
            /\ last'.exit = << 1 >>
            /\ hosts'[h] = hosts[h]
            /\ hosts'[h].head = 0
            /\ Refs(hosts'[h]) = NoRefs
            /\ ~hosts'[h].dirty
            /\ commits' = commits
            /\ up' = up]_vars

\* A clone has been refused in a repository without commits while the
\* upstream has something to clone.
C32_Witness ==
    \E h \in DOMAIN hosts :
        /\ Ended("clone", h, "EmptyRepository")
        /\ hosts[h].head = 0
        /\ ~hosts[h].dirty
        /\ up # 0

\* The step is a branch command of host h that made a graft from a
\* recorded parent, or a push or stopped pull that did.
GraftMade(h) ==
    \/ GraftSeen(h)
    \/ /\ Did("branch", h) /\ last'.out = "Success"
       /\ Desc(commits, hosts[h].head).parent # 0

\* C33: the commits a graft synthesizes are one chain (each has the
\* previous one as first parent) and stand, in order, for host commits of
\* one parent-to-child path of the walked history: each has the
\* subdirectory content of its host commit, and the host commit of each is
\* an ancestor of the host commit of the next.  A merged side path adds no
\* commit of its own.
C33_OneChainSelected ==
    [][\A h \in DOMAIN hosts :
         GraftMade(h) =>
           LET gs == SortAsc(Grafted(h))
           IN /\ \A n \in DOMAIN gs :
                    n > 1 => commits'[gs[n]].parents[1] = gs[n - 1]
              /\ \E k \in [DOMAIN gs -> Range(Walked(h))] :
                    /\ \A n \in DOMAIN gs :
                          commits'[gs[n]].tree.files = commits[k[n]].tree.files
                    /\ \A n \in DOMAIN gs :
                          n > 1 => k[n - 1] # k[n] /\ k[n - 1] \in Anc(commits, k[n])]_vars

\* A branch command has grafted a history in which the user merged a side
\* branch: the side commit, which has a descriptor and changes the
\* subdirectory, has no commit of its own on the grafted branch, whose tip
\* has the merged content.
C33_Witness ==
    \E h \in DOMAIN hosts :
        /\ Ended("branch", h, "Success")
        /\ LET l == CommitList(commits, Desc(commits, hosts[h].head).parent, hosts[h].head)
               m == hosts[h].head
           IN /\ Len(commits[m].parents) = 2
              /\ \E s \in Range(commits[m].parents) :
                    /\ s \in Range(l)
                    /\ commits[s].by = "user"
                    /\ gitrepo_commit(commits, s) # 0
                    /\ \E t \in Range(l) : t \notin Anc(commits, s) /\ s \notin Anc(commits, t)
                    /\ \A g \in Anc(commits, hosts[h].branch) :
                          commits[g].tree.files # commits[s].tree.files
              /\ commits[hosts[h].branch].tree.files = commits[m].tree.files

\* The commits the walk of the step's graft synthesizes, before the
\* descriptor is filtered out of them (the rebase check apart, which a
\* graft that was made has passed).
Synthesized(st, parent, head) ==
    Walk(st, CommitList(st, parent, head), 1, 0, Desc(st, head).method, WalkInit).synth

\* The second parent the statement gives the n-th synthesized commit.
StatedSecond(st, synth, n, method) ==
    IF n = 1 THEN gitrepo_commit(st, synth[n].src)
    ELSE IF method = "merge"
            /\ gitrepo_commit(st, synth[n].src) # gitrepo_commit(st, synth[n - 1].src)
    THEN gitrepo_commit(st, synth[n].src)
    ELSE 0

\* C34: in a graft made from a recorded parent the first synthesized
\* commit has the upstream commit its host commit records as second
\* parent; a later one has the upstream commit its host commit records as
\* second parent exactly when the method is merge and the host commit
\* synthesized before it records another one; under rebase no later commit
\* has a second parent.  The first parent is the commit synthesized
\* before: the commits of the grafted branch are a chain that starts on
\* the upstream commit the first one records.
C34_ParentList ==
    [][\A h \in DOMAIN hosts :
         GraftMade(h) =>
           LET d == Desc(commits, hosts[h].head)
               synth == Synthesized(commits, d.parent, hosts[h].head)
               gs == SortAsc(Grafted(h))
           IN /\ \A n \in DOMAIN synth :
                    synth[n].second = StatedSecond(commits, synth, n, d.method)
              /\ (d.method = "rebase" => \A n \in DOMAIN synth : n > 1 => synth[n].second = 0)
              /\ \A n \in DOMAIN gs :
                    commits'[gs[n]].parents[1]
                       = (IF n = 1 THEN synth[1].second ELSE gs[n - 1])
              /\ \A n \in DOMAIN gs :
                    Len(commits'[gs[n]].parents) = 2 =>
                       /\ d.method = "merge"
                       /\ \E i \in DOMAIN synth :
                             i > 1 /\ synth[i].second = commits'[gs[n]].parents[2]]_vars

\* A push under merge has succeeded whose graft walked the sync commit of
\* an earlier pull after a commit of the user: the commit synthesized for
\* the sync commit, not the first one, got the newly recorded upstream
\* commit as second parent, and the pushed head is that merge.
C34_Witness ==
    \E h \in DOMAIN hosts :
        /\ Ended("push", h, "Success")
        /\ LET ohc == commits[hosts[h].head].parents[1]
               synth == Synthesized(commits, Desc(commits, ohc).parent, ohc)
           IN /\ Desc(commits, ohc).method = "merge"
              /\ Len(synth) >= 2
              /\ \E n \in DOMAIN synth :
                    /\ n > 1
                    /\ synth[n].second # 0
                    /\ synth[n].second # synth[1].second
                    /\ commits[up].parents[2] = synth[n].second

\* The step is a branch command of host h that reaches the walk of the
\* graft while no fetched-upstream ref exists and a walked host commit
\* records an upstream commit that is not in the host's object store.
WalksMissingUpstream(h) ==
    /\ Did("branch", h)
    /\ GraftReady(h)
    /\ hosts[h].wbranch = 0
    /\ ~git_rev_exists(commits, hosts[h].fetch)
    /\ \E c \in Range(Walked(h)) :
          gitrepo_commit(commits, c) # 0 /\ gitrepo_commit(commits, c) \in hosts[h].missing

\* C35: without a fetched-upstream ref the graft still fails with the
\* history-rewritten error when the upstream commit a walked host commit
\* records is not in the object store, and creates no branch.
C35_MissingUpstreamRefused ==
    [][\A h \in DOMAIN hosts :
         WalksMissingUpstream(h) =>
            /\ last'.out = "HistoryRewritten"
            /\ hosts'[h].wbranch = 0
            /\ hosts'[h].branch = 0
            /\ hosts'[h].wt.state = "none"]_vars

\* The step left host h with the state of a killed pull or push.
KilledAt(h) == last'.out = "Killed" /\ last'.host = h

\* The commit the descriptor of host h's HEAD records is part of the
\* upstream branch (a descriptor that records none has nothing to lose).
Contained(st, H, u) ==
    Desc(st, H.head).present /\ Desc(st, H.head).commit # 0
       => u # 0 /\ Desc(st, H.head).commit \in Anc(st, u)

\* What a killed command left of the two branches: every commit of the
\* host branch and of the upstream branch is still on it, and the
\* descriptor at the host HEAD records a commit of the upstream branch.
NothingLost(h) ==
    /\ Anc(commits, hosts[h].head) \subseteq Anc(commits', hosts'[h].head)
    /\ (up # 0 => up' # 0 /\ Anc(commits, up) \subseteq Anc(commits', up'))
    /\ Contained(commits', hosts'[h], up')

\* C36 as stated: a pull or push killed between any two of its steps has
\* lost no commit of the host branch or of the upstream branch, and the
\* host HEAD's descriptor records a commit the upstream branch contains.
C36_PartialRunLosesNothing ==
    [][\A h \in DOMAIN hosts : KilledAt(h) => NothingLost(h)]_vars

\* C36, amended: the same for a pull, and for a push without --force.
C36_PartialRunLosesNothingUnforced ==
    [][\A h \in DOMAIN hosts : (KilledAt(h) /\ ~last'.force) => NothingLost(h)]_vars

\* A push without --force was killed between `git push` and the commit:
\* the upstream branch has the pushed commits, the host HEAD is where it
\* was and its descriptor still records the former upstream head.
C36_Witness ==
    \E h \in DOMAIN hosts :
        /\ last.out = "Killed" /\ last.cmd = "push" /\ last.host = h /\ ~last.force
        /\ hosts[h].push = up
        /\ Desc(commits, hosts[h].head).commit # up
        /\ Desc(commits, hosts[h].head).commit \in Anc(commits, up)
        /\ hosts[h].dirty

\* The commands that commit to the host branch.
Committing == {"clone", "init", "pull", "push", "commit"}

\* C37: a clone, init, pull, push or commit that reports success has added
\* exactly one commit to the host branch, a new commit whose only parent is
\* the HEAD the command started on; one that ends in any other way (an
\* error, a stopped merge or rebase, up to date, nothing to push) leaves
\* the host HEAD where it was, and with it the committed descriptor.
C37_OneCommitOrNone ==
    [][\A h \in DOMAIN hosts : \A cmd \in Committing :
         Did(cmd, h) =>
            IF last'.out = "Success"
            THEN /\ hosts'[h].head \notin DOMAIN commits
                 /\ hosts'[h].head \in DOMAIN commits'
                 /\ commits'[hosts'[h].head].parents = << hosts[h].head >>
                 /\ Anc(commits', hosts'[h].head)
                       = Anc(commits, hosts[h].head) \cup {hosts'[h].head}
            ELSE /\ hosts'[h].head = hosts[h].head
                 /\ Desc(commits', hosts'[h].head) = Desc(commits, hosts[h].head)]_vars

\* A commit command has succeeded after a pull that stopped on a conflict
\* left HEAD on the user's commit: HEAD is the one new commit, on top of
\* the user's commit.
C37_Witness ==
    \E h \in DOMAIN hosts :
        /\ Ended("commit", h, "Success")
        /\ Len(commits[hosts[h].head].parents) = 1
        /\ commits[commits[hosts[h].head].parents[1]].by = "user"
        /\ \E c \in Anc(commits, hosts[h].commit) : commits[c].by = "resolve"

\* The step is the `git push` part of host h's push, made after the
\* upstream head has moved away from the head U the push fetched: another
\* host, which had recorded U as well, got its push in first.
Overtaken(h) ==
    /\ Did("push", h)
    /\ hosts[h].pushing # << >>
    /\ hosts[h].pushing[1] # up
    /\ hosts[h].wbranch # up

\* C38: however the pushes of the hosts interleave, the upstream head moves
\* only to a descendant of the head it had; a push that was overtaken is
\* refused, moves nothing upstream and leaves its host HEAD and descriptor
\* as they were, so of two hosts pushing different commits on one upstream
\* head at most one is accepted.
C38_UpstreamOnlyForward ==
    [][/\ (up # 0 => up' # 0 /\ up \in Anc(commits', up'))
       /\ \A h \in DOMAIN hosts :
             /\ Overtaken(h) =>
                   /\ last'.out # "Success"
                   /\ up' = up
             /\ (Did("push", h) /\ last'.out # "Success") =>
                   /\ hosts'[h].head = hosts[h].head
                   /\ Desc(commits', hosts'[h].head) = Desc(commits, hosts[h].head)]_vars

\* Host h2's push has been refused after host h1, which had recorded the
\* same upstream head, pushed a commit of its own in between: the upstream
\* head is h1's commit and h2's HEAD is still the user's commit.
C38_Witness ==
    /\ Ended("push", "h2", "CommandFailed")
    /\ commits[hosts["h2"].head].by = "user"
    /\ hosts["h2"].wbranch # 0
    /\ up # hosts["h2"].wbranch
    /\ up \notin Anc(commits, hosts["h2"].wbranch)
    /\ up = hosts["h1"].push
    /\ Desc(commits, hosts["h1"].head).commit = up
    /\ Desc(commits, hosts["h2"].head).commit \in Anc(commits, up) \ {up}

\* Every host commit the graft of host h walks has a descriptor.
AllDescribed(h) == \A c \in Range(Walked(h)) : gitrepo_commit(commits, c) # 0

\* C39: when every host commit between the recorded parent and HEAD has a
\* descriptor, the tip of the branch a graft makes has the subdirectory
\* tree of the host HEAD without the descriptor: the graft ends at HEAD.
C39_GraftEndsAtHead ==
    [][\A h \in DOMAIN hosts :
         (GraftMade(h) /\ hosts'[h].branch # 0 /\ AllDescribed(h)) =>
            /\ commits'[hosts'[h].branch].tree.files = commits[hosts[h].head].tree.files
            /\ ~commits'[hosts'[h].branch].tree.gitrepo.present
            /\ commits[hosts[h].head].tree.gitrepo.present]_vars

\* A branch command has grafted a history that ends in a merge of two
\* lines which both changed the subdirectory: the grafted tip has HEAD's
\* content, which neither parent of HEAD has.
C39_Witness ==
    \E h \in DOMAIN hosts :
        /\ Ended("branch", h, "Success")
        /\ Len(commits[hosts[h].head].parents) = 2
        /\ \A p \in Range(commits[hosts[h].head].parents) :
              /\ commits[p].tree.files # commits[hosts[h].head].tree.files
              /\ Desc(commits, hosts[h].head).parent \in Anc(commits, p) \ {p}
        /\ commits[hosts[h].branch].tree.files = commits[hosts[h].head].tree.files
        /\ ~commits[hosts[h].branch].tree.gitrepo.present

\* Two subrepos have been cloned into different subdirectories of one
\* repository, both new directories below its root.
TwoSubrepos(h, g) ==
    /\ h # g
    /\ hosts[h].subref # << >>
    /\ hosts[g].subref # << >>
    /\ hosts[h].subdir # hosts[g].subdir
    /\ ~OutsideRoot(hosts[h].subdir)
    /\ ~OutsideRoot(hosts[g].subdir)

\* C40: the encoding of the subdirectory is injective: two subrepos in
\* different (normalized) subdirectories of one repository never have the
\* same ref segment, so they share none of their four refs
\* refs/subrepo/<subref>/{fetch,branch,commit,push}.
C40_EncodingInjective ==
    \A h, g \in DOMAIN hosts :
        TwoSubrepos(h, g) =>
           /\ hosts[h].subref # hosts[g].subref
           /\ refs_subrepo(hosts[h].subref) \cap refs_subrepo(hosts[g].subref) = {}

====
